---- MODULE Spec2Model ----
(***************************************************************************)
(* The URL restriction engine of the focus-session browser extensions      *)
(* (extension-google/src/lib/url-blocker.ts, extension-firefox/src/lib/    *)
(* url-blocker.ts): shouldBlockUrl and the matching algorithm under it.    *)
(*                                                                         *)
(* A JavaScript string is a sequence of one-character strings, so that     *)
(* includes, startsWith, endsWith, split, replace and toLowerCase are      *)
(* computed character by character.  The URL constructor is the WHATWG URL *)
(* parser restricted to the characters of the model's inputs: ASCII        *)
(* letters and digits, and  : / ? # . - ! = & and the space.               *)
(***************************************************************************)
EXTENDS Integers, Sequences, FiniteSets

(***************************************************************************)
(* JavaScript string primitives                                            *)
(***************************************************************************)

LowerOf ==
    [A |-> "a", B |-> "b", C |-> "c", D |-> "d", E |-> "e", F |-> "f",
     G |-> "g", H |-> "h", I |-> "i", J |-> "j", K |-> "k", L |-> "l",
     M |-> "m", N |-> "n", O |-> "o", P |-> "p", Q |-> "q", R |-> "r",
     S |-> "s", T |-> "t", U |-> "u", V |-> "v", W |-> "w", X |-> "x",
     Y |-> "y", Z |-> "z"]

UpperChars == DOMAIN LowerOf
LowerChars == {LowerOf[c] : c \in UpperChars}
AlphaChars == UpperChars \cup LowerChars
DigitChars == {"0", "1", "2", "3", "4", "5", "6", "7", "8", "9"}

\* String.prototype.toLowerCase
toLowerCase(s) ==
    [i \in 1..Len(s) |-> IF s[i] \in UpperChars THEN LowerOf[s[i]] ELSE s[i]]

\* String.prototype.startsWith
startsWith(s, p) ==
    Len(p) <= Len(s) /\ SubSeq(s, 1, Len(p)) = p

\* String.prototype.endsWith
endsWith(s, p) ==
    Len(p) <= Len(s) /\ SubSeq(s, Len(s) - Len(p) + 1, Len(s)) = p

\* String.prototype.includes
includes(s, p) ==
    \E i \in 1..(Len(s) - Len(p) + 1) : SubSeq(s, i, i + Len(p) - 1) = p

\* The least index from `from` on whose character is in cs; Len(s) + 1 if none.
IndexIn(s, cs, from) ==
    LET hits == {i \in from..Len(s) : s[i] \in cs}
    IN  IF hits = {} THEN Len(s) + 1
        ELSE CHOOSE i \in hits : \A j \in hits : i <= j

\* The least index from `from` on whose character is NOT in cs; Len(s) + 1 if none.
IndexNotIn(s, cs, from) ==
    LET hits == {i \in from..Len(s) : s[i] \notin cs}
    IN  IF hits = {} THEN Len(s) + 1
        ELSE CHOOSE i \in hits : \A j \in hits : i <= j

\* s.split("?")[1] || "" : the text between the first and the second "?"
\* (undefined, hence "", when s holds no "?").
splitQuestion1(s) ==
    LET q1 == IndexIn(s, {"?"}, 1)
        q2 == IndexIn(s, {"?"}, q1 + 1)
    IN  IF q1 > Len(s) THEN << >> ELSE SubSeq(s, q1 + 1, q2 - 1)

\* s.replace(/\/$/, "") : one trailing slash removed
stripTrailingSlash(s) ==
    IF Len(s) > 0 /\ s[Len(s)] = "/" THEN SubSeq(s, 1, Len(s) - 1) ELSE s

Www == <<"w", "w", "w", ".">>

\* s.replace(/^www\./, "") : one leading "www." removed
stripLeadingWww(s) ==
    IF startsWith(s, Www) THEN SubSeq(s, Len(Www) + 1, Len(s)) ELSE s

(***************************************************************************)
(* new URL(s), without a base URL (WHATWG URL parsing)                     *)
(***************************************************************************)

\* What a throwing constructor yields to the surrounding try/catch.
Throws == [ok |-> FALSE]

SchemeChars == AlphaChars \cup DigitChars \cup {"+", "-", "."}

\* The special schemes that carry a host (file is handled on its own).
SpecialSchemes ==
    { <<"h", "t", "t", "p">>, <<"h", "t", "t", "p", "s">>, <<"f", "t", "p">>,
      <<"w", "s">>, <<"w", "s", "s">> }

FileScheme == <<"f", "i", "l", "e">>

\* Leading and trailing spaces are removed before parsing.
RECURSIVE trimSpaces(_)
trimSpaces(s) ==
    IF Len(s) = 0 THEN s
    ELSE IF s[1] = " " THEN trimSpaces(Tail(s))
    ELSE IF s[Len(s)] = " " THEN trimSpaces(SubSeq(s, 1, Len(s) - 1))
    ELSE s

\* Percent-encoding of the one model character the path and query sets encode.
RECURSIVE percentEncode(_)
percentEncode(s) ==
    IF Len(s) = 0 THEN << >>
    ELSE (IF s[1] = " " THEN <<"%", "2", "0">> ELSE <<s[1]>>)
         \o percentEncode(Tail(s))

\* The value of a string of decimal digits.
RECURSIVE decimalValue(_)
decimalValue(s) ==
    IF Len(s) = 0 THEN 0
    ELSE 10 * decimalValue(SubSeq(s, 1, Len(s) - 1))
         + (CHOOSE d \in 0..9 :
               <<"0", "1", "2", "3", "4", "5", "6", "7", "8", "9">>[d + 1]
                 = s[Len(s)])

\* The labels of a host: the text between its dots.
RECURSIVE hostLabels(_)
hostLabels(h) ==
    LET d == IndexIn(h, {"."}, 1)
    IN  IF d > Len(h) THEN <<h>>
        ELSE <<SubSeq(h, 1, d - 1)>> \o hostLabels(SubSeq(h, d + 1, Len(h)))

isNumber(l) == Len(l) > 0 /\ \A i \in 1..Len(l) : l[i] \in DigitChars

\* The host ends in a number: it is parsed as an IPv4 address.
endsInNumber(h) ==
    LET ls   == hostLabels(h)
        last == IF Len(ls) > 1 /\ ls[Len(ls)] = << >>
                THEN ls[Len(ls) - 1] ELSE ls[Len(ls)]
    IN  isNumber(last)

\* A dotted quad of decimal octets is kept as written; any other host that
\* ends in a number is rejected (the shorthand, octal and hexadecimal forms
\* the parser would rewrite are not among the model's characters' uses).
validIPv4(h) ==
    LET ls == hostLabels(h)
    IN  /\ Len(ls) = 4
        /\ \A i \in 1..4 : isNumber(ls[i]) /\ Len(ls[i]) <= 3
                           /\ decimalValue(ls[i]) <= 255
                           /\ (Len(ls[i]) > 1 => ls[i][1] # "0")

\* host[":" port] of an authority.  special: the scheme is a special one
\* (the host is a domain: lowercased, never empty).
parseAuthority(a, special) ==
    LET c    == IndexIn(a, {":"}, 1)
        host == SubSeq(a, 1, c - 1)
        port == SubSeq(a, c + 1, Len(a))
    IN  IF \E i \in 1..Len(host) : host[i] = " " THEN Throws
        ELSE IF special /\ Len(host) = 0 THEN Throws
        ELSE IF ~(\A i \in 1..Len(port) : port[i] \in DigitChars) THEN Throws
        ELSE IF Len(port) > 0 /\ decimalValue(port) > 65535 THEN Throws
        ELSE IF special /\ endsInNumber(host) /\ ~validIPv4(host) THEN Throws
        ELSE [ok |-> TRUE,
              hostname |-> IF special THEN toLowerCase(host) ELSE host]

\* The segments of a path that starts with "/".
RECURSIVE pathSegments(_)
pathSegments(p) ==
    LET rest == Tail(p)
        s    == IndexIn(rest, {"/"}, 1)
    IN  IF s > Len(rest) THEN <<rest>>
        ELSE <<SubSeq(rest, 1, s - 1)>>
             \o pathSegments(SubSeq(rest, s, Len(rest)))

Dot == <<".">>
DotDot == <<".", ".">>

\* The path state: "." and ".." segments are resolved as the path is read.
RECURSIVE resolveSegments(_, _, _)
resolveSegments(segs, i, acc) ==
    IF i > Len(segs) THEN acc
    ELSE LET seg  == segs[i]
             last == (i = Len(segs))
         IN  IF seg = DotDot
             THEN resolveSegments(segs, i + 1,
                    (IF Len(acc) > 0 THEN SubSeq(acc, 1, Len(acc) - 1) ELSE acc)
                    \o (IF last THEN << << >> >> ELSE << >>))
             ELSE IF seg = Dot
             THEN resolveSegments(segs, i + 1,
                    acc \o (IF last THEN << << >> >> ELSE << >>))
             ELSE resolveSegments(segs, i + 1, acc \o <<percentEncode(seg)>>)

RECURSIVE joinSegments(_)
joinSegments(segs) ==
    IF Len(segs) = 0 THEN << >>
    ELSE <<"/">> \o segs[1] \o joinSegments(Tail(segs))

\* The serialised path of a hierarchical URL; p is empty or starts with "/".
parsePath(p, special) ==
    IF Len(p) = 0 THEN (IF special THEN <<"/">> ELSE << >>)
    ELSE joinSegments(resolveSegments(pathSegments(p), 1, << >>))

\* The getters the engine reads off a parsed URL: protocol (with its
\* colon), hostname, pathname and search.
made(scheme, h, p, search) ==
    [ok |-> TRUE, protocol |-> scheme \o <<":">>,
     hostname |-> h, pathname |-> p, search |-> search]

\* The search getter: empty for an empty query.
searchOf(query) ==
    IF Len(query) = 0 THEN << >> ELSE <<"?">> \o percentEncode(query)

\* The authority has parsed (or thrown): the path after it follows.
parseAfterAuthority(scheme, auth, p, search) ==
    IF auth.ok
    THEN made(scheme, auth.hostname,
              parsePath(p, scheme \in SpecialSchemes \/ scheme = FileScheme),
              search)
    ELSE Throws

\* The text after the slashes that open an authority, up to the query.
parseFromAuthority(scheme, afterSl, search) ==
    parseAfterAuthority(
        scheme,
        parseAuthority(SubSeq(afterSl, 1, IndexIn(afterSl, {"/"}, 1) - 1),
                       scheme \in SpecialSchemes),
        SubSeq(afterSl, IndexIn(afterSl, {"/"}, 1), Len(afterSl)),
        search)

\* hier: the text between the scheme's colon and the query; slashes: the
\* number of slashes it starts with.  A special scheme skips every leading
\* slash before the host; any other scheme has an authority after exactly
\* "//", a path after "/", and an opaque path otherwise.
parseHierarchy(scheme, hier, slashes, search) ==
    IF scheme \in SpecialSchemes
    THEN parseFromAuthority(scheme, SubSeq(hier, slashes + 1, Len(hier)),
                            search)
    ELSE IF slashes >= 2
    THEN parseFromAuthority(scheme, SubSeq(hier, 3, Len(hier)), search)
    ELSE IF scheme = FileScheme
    THEN made(scheme, << >>,
              parsePath(IF slashes >= 1 THEN hier ELSE <<"/">> \o hier, TRUE),
              search)
    ELSE IF slashes = 1
    THEN made(scheme, << >>, parsePath(hier, FALSE), search)
    ELSE made(scheme, << >>, hier, search)

\* body: the text after the scheme's colon, the fragment removed; q: the
\* index of its first "?".
parseBody(scheme, body, q) ==
    parseHierarchy(scheme,
                   SubSeq(body, 1, q - 1),
                   IndexNotIn(SubSeq(body, 1, q - 1), {"/"}, 1) - 1,
                   searchOf(SubSeq(body, q + 1, Len(body))))

\* rest: the text after the scheme's colon.
parseAfterScheme(scheme, rest) ==
    parseBody(scheme,
              SubSeq(rest, 1, IndexIn(rest, {"#"}, 1) - 1),
              IndexIn(SubSeq(rest, 1, IndexIn(rest, {"#"}, 1) - 1), {"?"}, 1))

\* s: the trimmed input; schemeEnd: the index of the first character that
\* cannot be part of a scheme.
parseScheme(s, schemeEnd) ==
    IF \/ Len(s) = 0
       \/ s[1] \notin AlphaChars
       \/ schemeEnd > Len(s)
       \/ s[schemeEnd] # ":"
    THEN Throws
    ELSE parseAfterScheme(toLowerCase(SubSeq(s, 1, schemeEnd - 1)),
                          SubSeq(s, schemeEnd + 1, Len(s)))

parseTrimmed(s) == parseScheme(s, IndexNotIn(s, SchemeChars, 1))

\* new URL(input): [ok |-> FALSE] when the constructor throws.
parseURL(input) == parseTrimmed(trimSpaces(input))

(***************************************************************************)
(* The strings of the model: navigation targets, list entries, domains    *)
(***************************************************************************)

\* "https://example.com"
tExample ==
    <<"h", "t", "t", "p", "s", ":", "/", "/", "e", "x", "a", "m", "p", "l",
      "e", ".", "c", "o", "m">>
\* "https://example.com/"
tExampleRoot ==
    <<"h", "t", "t", "p", "s", ":", "/", "/", "e", "x", "a", "m", "p", "l",
      "e", ".", "c", "o", "m", "/">>
\* "https://example.com/deep/path?x=1"
tExampleDeep ==
    <<"h", "t", "t", "p", "s", ":", "/", "/", "e", "x", "a", "m", "p", "l",
      "e", ".", "c", "o", "m", "/", "d", "e", "e", "p", "/", "p", "a", "t",
      "h", "?", "x", "=", "1">>
\* "https://example.com/videos"
tExampleVideos ==
    <<"h", "t", "t", "p", "s", ":", "/", "/", "e", "x", "a", "m", "p", "l",
      "e", ".", "c", "o", "m", "/", "v", "i", "d", "e", "o", "s">>
\* "https://example.com/videos/"
tExampleVideosSlash ==
    <<"h", "t", "t", "p", "s", ":", "/", "/", "e", "x", "a", "m", "p", "l",
      "e", ".", "c", "o", "m", "/", "v", "i", "d", "e", "o", "s", "/">>
\* "https://example.com/videos/123"
tExampleVideos123 ==
    <<"h", "t", "t", "p", "s", ":", "/", "/", "e", "x", "a", "m", "p", "l",
      "e", ".", "c", "o", "m", "/", "v", "i", "d", "e", "o", "s", "/", "1",
      "2", "3">>
\* "https://example.com/videos?x=1"
tExampleVideosQuery ==
    <<"h", "t", "t", "p", "s", ":", "/", "/", "e", "x", "a", "m", "p", "l",
      "e", ".", "c", "o", "m", "/", "v", "i", "d", "e", "o", "s", "?", "x",
      "=", "1">>
\* "https://example.com/other"
tExampleOther ==
    <<"h", "t", "t", "p", "s", ":", "/", "/", "e", "x", "a", "m", "p", "l",
      "e", ".", "c", "o", "m", "/", "o", "t", "h", "e", "r">>
\* "https://example.com/#?videos"
tExampleFragment ==
    <<"h", "t", "t", "p", "s", ":", "/", "/", "e", "x", "a", "m", "p", "l",
      "e", ".", "c", "o", "m", "/", "#", "?", "v", "i", "d", "e", "o", "s">>
\* "HTTPS://EXAMPLE.COM/Videos"
tExampleUpper ==
    <<"H", "T", "T", "P", "S", ":", "/", "/", "E", "X", "A", "M", "P", "L",
      "E", ".", "C", "O", "M", "/", "V", "i", "d", "e", "o", "s">>
\* "https://www.example.com"
tWwwExample ==
    <<"h", "t", "t", "p", "s", ":", "/", "/", "w", "w", "w", ".", "e", "x",
      "a", "m", "p", "l", "e", ".", "c", "o", "m">>
\* "https://sub.example.com/videos"
tSubExample ==
    <<"h", "t", "t", "p", "s", ":", "/", "/", "s", "u", "b", ".", "e", "x",
      "a", "m", "p", "l", "e", ".", "c", "o", "m", "/", "v", "i", "d", "e",
      "o", "s">>
\* "https://other.example.com"
tOtherExample ==
    <<"h", "t", "t", "p", "s", ":", "/", "/", "o", "t", "h", "e", "r", ".",
      "e", "x", "a", "m", "p", "l", "e", ".", "c", "o", "m">>
\* "https://notexample.com"
tNotExample ==
    <<"h", "t", "t", "p", "s", ":", "/", "/", "n", "o", "t", "e", "x", "a",
      "m", "p", "l", "e", ".", "c", "o", "m">>
\* "https://youtube.com/watch?v=abc"
tYoutubeAbc ==
    <<"h", "t", "t", "p", "s", ":", "/", "/", "y", "o", "u", "t", "u", "b",
      "e", ".", "c", "o", "m", "/", "w", "a", "t", "c", "h", "?", "v", "=",
      "a", "b", "c">>
\* "https://youtube.com/watch?v=abc&t=10"
tYoutubeAbcT ==
    <<"h", "t", "t", "p", "s", ":", "/", "/", "y", "o", "u", "t", "u", "b",
      "e", ".", "c", "o", "m", "/", "w", "a", "t", "c", "h", "?", "v", "=",
      "a", "b", "c", "&", "t", "=", "1", "0">>
\* "https://youtube.com/watch?v=xyz"
tYoutubeXyz ==
    <<"h", "t", "t", "p", "s", ":", "/", "/", "y", "o", "u", "t", "u", "b",
      "e", ".", "c", "o", "m", "/", "w", "a", "t", "c", "h", "?", "v", "=",
      "x", "y", "z">>
\* "https://docs.google.com/document/d/abc"
tDocs ==
    <<"h", "t", "t", "p", "s", ":", "/", "/", "d", "o", "c", "s", ".", "g",
      "o", "o", "g", "l", "e", ".", "c", "o", "m", "/", "d", "o", "c", "u",
      "m", "e", "n", "t", "/", "d", "/", "a", "b", "c">>
\* "https://localhost:3000/dashboard"
tLocalhost ==
    <<"h", "t", "t", "p", "s", ":", "/", "/", "l", "o", "c", "a", "l", "h",
      "o", "s", "t", ":", "3", "0", "0", "0", "/", "d", "a", "s", "h", "b",
      "o", "a", "r", "d">>
\* "https://flow.anshul.space/dashboard"
tFlow ==
    <<"h", "t", "t", "p", "s", ":", "/", "/", "f", "l", "o", "w", ".", "a",
      "n", "s", "h", "u", "l", ".", "s", "p", "a", "c", "e", "/", "d", "a",
      "s", "h", "b", "o", "a", "r", "d">>
\* "https://notlocalhost/"
tNotLocalhost ==
    <<"h", "t", "t", "p", "s", ":", "/", "/", "n", "o", "t", "l", "o", "c",
      "a", "l", "h", "o", "s", "t", "/">>
\* "example.com/videos"
tSchemeless ==
    <<"e", "x", "a", "m", "p", "l", "e", ".", "c", "o", "m", "/", "v", "i",
      "d", "e", "o", "s">>
\* "not a url!!"
tMalformed == <<"n", "o", "t", " ", "a", " ", "u", "r", "l", "!", "!">>
\* "data:a"
tData == <<"d", "a", "t", "a", ":", "a">>
\* "chrome://settings"
tChrome ==
    <<"c", "h", "r", "o", "m", "e", ":", "/", "/", "s", "e", "t", "t", "i",
      "n", "g", "s">>
\* "chrome-extension://abc/popup"
tChromeExtension ==
    <<"c", "h", "r", "o", "m", "e", "-", "e", "x", "t", "e", "n", "s", "i",
      "o", "n", ":", "/", "/", "a", "b", "c", "/", "p", "o", "p", "u", "p">>
\* "about:blank"
tAbout == <<"a", "b", "o", "u", "t", ":", "b", "l", "a", "n", "k">>
\* "edge://settings"
tEdge ==
    <<"e", "d", "g", "e", ":", "/", "/", "s", "e", "t", "t", "i", "n", "g",
      "s">>
\* "brave://settings"
tBrave ==
    <<"b", "r", "a", "v", "e", ":", "/", "/", "s", "e", "t", "t", "i", "n",
      "g", "s">>
\* "opera://settings"
tOpera ==
    <<"o", "p", "e", "r", "a", ":", "/", "/", "s", "e", "t", "t", "i", "n",
      "g", "s">>
\* "vivaldi://settings"
tVivaldi ==
    <<"v", "i", "v", "a", "l", "d", "i", ":", "/", "/", "s", "e", "t", "t",
      "i", "n", "g", "s">>
\* "moz-extension://abc/popup"
tMozExtension ==
    <<"m", "o", "z", "-", "e", "x", "t", "e", "n", "s", "i", "o", "n", ":",
      "/", "/", "a", "b", "c", "/", "p", "o", "p", "u", "p">>
\* "file:///home/a"
tFile ==
    <<"f", "i", "l", "e", ":", "/", "/", "/", "h", "o", "m", "e", "/", "a">>
\* "resource://gre/a"
tResource ==
    <<"r", "e", "s", "o", "u", "r", "c", "e", ":", "/", "/", "g", "r", "e",
      "/", "a">>

\* "example.com"
eExample == <<"e", "x", "a", "m", "p", "l", "e", ".", "c", "o", "m">>
\* "example.com/"
eExampleSlash ==
    <<"e", "x", "a", "m", "p", "l", "e", ".", "c", "o", "m", "/">>
\* "EXAMPLE.COM"
eExampleUpper == <<"E", "X", "A", "M", "P", "L", "E", ".", "C", "O", "M">>
\* "www.example.com"
eWwwExample ==
    <<"w", "w", "w", ".", "e", "x", "a", "m", "p", "l", "e", ".", "c", "o",
      "m">>
\* "sub.example.com"
eSubExample ==
    <<"s", "u", "b", ".", "e", "x", "a", "m", "p", "l", "e", ".", "c", "o",
      "m">>
\* "example.com/videos"
eVideos ==
    <<"e", "x", "a", "m", "p", "l", "e", ".", "c", "o", "m", "/", "v", "i",
      "d", "e", "o", "s">>
\* "example.com/videos/"
eVideosSlash ==
    <<"e", "x", "a", "m", "p", "l", "e", ".", "c", "o", "m", "/", "v", "i",
      "d", "e", "o", "s", "/">>
\* "https://example.com/videos"
eVideosFull ==
    <<"h", "t", "t", "p", "s", ":", "/", "/", "e", "x", "a", "m", "p", "l",
      "e", ".", "c", "o", "m", "/", "v", "i", "d", "e", "o", "s">>
\* "example.com?"
eExampleQuestion ==
    <<"e", "x", "a", "m", "p", "l", "e", ".", "c", "o", "m", "?">>
\* "youtube.com/watch?v=abc"
eYoutubeAbc ==
    <<"y", "o", "u", "t", "u", "b", "e", ".", "c", "o", "m", "/", "w", "a",
      "t", "c", "h", "?", "v", "=", "a", "b", "c">>
\* "https://docs.google.com"
eDocs ==
    <<"h", "t", "t", "p", "s", ":", "/", "/", "d", "o", "c", "s", ".", "g",
      "o", "o", "g", "l", "e", ".", "c", "o", "m">>
\* "localhost"
eLocalhost == <<"l", "o", "c", "a", "l", "h", "o", "s", "t">>
\* "not a url!!"
eMalformed == <<"n", "o", "t", " ", "a", " ", "u", "r", "l", "!", "!">>

\* "localhost"
dLocalhost == <<"l", "o", "c", "a", "l", "h", "o", "s", "t">>
\* "127.0.0.1"
dLoopback == <<"1", "2", "7", ".", "0", ".", "0", ".", "1">>
\* "vercel.app"
dVercel == <<"v", "e", "r", "c", "e", "l", ".", "a", "p", "p">>
\* "anshul.space"
dAnshul == <<"a", "n", "s", "h", "u", "l", ".", "s", "p", "a", "c", "e">>
\* "example.com"
dExample == <<"e", "x", "a", "m", "p", "l", "e", ".", "c", "o", "m">>

\* Every string of the model, as written and with "https://" inserted.
ModelStrings ==
    LET written == {tExample, tExampleRoot, tExampleDeep, tExampleVideos,
                    tExampleVideosSlash, tExampleVideos123,
                    tExampleVideosQuery, tExampleOther, tExampleFragment,
                    tExampleUpper, tWwwExample, tSubExample, tOtherExample,
                    tNotExample, tYoutubeAbc, tYoutubeAbcT, tYoutubeXyz,
                    tDocs, tLocalhost, tFlow, tNotLocalhost, tSchemeless,
                    tMalformed, tData, tChrome, tChromeExtension, tAbout,
                    tEdge, tBrave, tOpera, tVivaldi, tMozExtension, tFile,
                    tResource, eExample, eExampleSlash, eExampleUpper,
                    eWwwExample, eSubExample, eVideos, eVideosSlash,
                    eVideosFull, eExampleQuestion, eYoutubeAbc, eDocs,
                    eLocalhost, eMalformed}
    IN  written \cup {<<"h", "t", "t", "p", "s", ":", "/", "/">> \o w :
                         w \in written}

\* The parser's answers on the model's strings, computed once.
ParsedURL == [w \in ModelStrings |-> parseURL(w)]

\* new URL(input), for the strings of the model.
URLParse(input) == ParsedURL[input]

(***************************************************************************)
(* url-blocker.ts: parsing and matching                                    *)
(***************************************************************************)

\* A function's null result (a caught throw).
Null == [ok |-> FALSE]

SchemeSep == <<":", "/", "/">>
HttpsPrefix == <<"h", "t", "t", "p", "s", ":", "/", "/">>

\* parsed.hostname.toLowerCase(), or null when new URL has thrown.
hostnameOrNull(parsed) ==
    IF parsed.ok THEN [ok |-> TRUE, value |-> toLowerCase(parsed.hostname)]
    ELSE Null

\* extractHostname: the lowercased hostname, or null when new URL throws.
extractHostname(url) == hostnameOrNull(URLParse(url))

\* urlToParse that inserts no scheme.
urlToParseAsWritten(url) == url

\* urlToParse: a scheme is inserted when the string holds no "://".
urlToParse(url) ==
    IF ~includes(url, SchemeSep) THEN HttpsPrefix \o url ELSE url

\* The object parseUrlForMatching returns, or null when new URL has thrown.
matchingParts(toParse, parsed) ==
    IF parsed.ok
    THEN [ok       |-> TRUE,
          hostname |-> toLowerCase(parsed.hostname),
          pathname |-> parsed.pathname \o parsed.search,
          fullUrl  |-> toLowerCase(toParse)]
    ELSE Null

\* parseUrlForMatching
parseUrlForMatching(url) ==
    matchingParts(urlToParse(url), URLParse(urlToParse(url)))

\* The test hasSpecificPath makes on what parseUrlForMatching returned.
isSpecific(parsed) ==
    IF ~parsed.ok THEN FALSE
    ELSE Len(stripTrailingSlash(parsed.pathname)) > 0
         \/ includes(parsed.fullUrl, <<"?">>)

\* hasSpecificPath: the entry constrains the path, not only the host.
hasSpecificPath(url) == isSpecific(parseUrlForMatching(url))

\* normalizeHostname
normalizeHostname(hostname) == toLowerCase(stripLeadingWww(hostname))

\* hostnameMatches that accepts a subdomain of the entry only, not the
\* entry being a subdomain of the target.
hostnameMatchesOneWay(targetHostnameNorm, listHostnameNorm) ==
    \/ targetHostnameNorm = listHostnameNorm
    \/ endsWith(targetHostnameNorm, <<".">> \o listHostnameNorm)

\* The hostname test of urlMatchesAny's callback, on normalised hostnames.
hostnameMatches(targetHostnameNorm, listHostnameNorm) ==
    \/ targetHostnameNorm = listHostnameNorm
    \/ endsWith(targetHostnameNorm, <<".">> \o listHostnameNorm)
    \/ endsWith(listHostnameNorm, <<".">> \o targetHostnameNorm)

\* The path compared by urlMatchesAny: pathname (which already carries the
\* search) followed by the text after the first "?" of the lowercased
\* string, one trailing slash removed.
matchPath(parsed) ==
    stripTrailingSlash(
        parsed.pathname
        \o (IF includes(parsed.fullUrl, <<"?">>)
            THEN splitQuestion1(parsed.fullUrl) ELSE << >>))

\* The path test of the callback: equal paths, or the entry's is a prefix.
pathMatches(targetPath, listPath) ==
    targetPath = listPath \/ startsWith(targetPath, listPath)

\* compareParsed that lets an unparseable entry match (fails open per entry).
compareParsedBadEntryMatches(targetParsed, listParsed, specific) ==
    IF ~listParsed.ok THEN TRUE
    ELSE IF ~hostnameMatches(normalizeHostname(targetParsed.hostname),
                             normalizeHostname(listParsed.hostname))
    THEN FALSE
    ELSE IF specific
    THEN pathMatches(matchPath(targetParsed), matchPath(listParsed))
    ELSE TRUE

\* compareParsed that compares the paths of every entry, and for equality.
compareParsedExactPath(targetParsed, listParsed, specific) ==
    IF ~listParsed.ok THEN FALSE
    ELSE IF ~hostnameMatches(normalizeHostname(targetParsed.hostname),
                             normalizeHostname(listParsed.hostname))
    THEN FALSE
    ELSE matchPath(targetParsed) = matchPath(listParsed)

\* The body of the callback, given listParsed and hasSpecificPath(listUrl).
compareParsed(targetParsed, listParsed, specific) ==
    IF ~listParsed.ok THEN FALSE
    ELSE IF ~hostnameMatches(normalizeHostname(targetParsed.hostname),
                             normalizeHostname(listParsed.hostname))
    THEN FALSE
    ELSE IF specific
    THEN pathMatches(matchPath(targetParsed), matchPath(listParsed))
    ELSE TRUE

\* The callback urlMatchesAny hands to Array.prototype.some.
listUrlMatches(targetParsed, listUrl) ==
    compareParsed(targetParsed, parseUrlForMatching(listUrl),
                  hasSpecificPath(listUrl))

\* The some() of urlMatchesAny, given targetParsed.
someMatches(targetParsed, urlList) ==
    IF ~targetParsed.ok THEN FALSE
    ELSE \E i \in 1..Len(urlList) : listUrlMatches(targetParsed, urlList[i])

\* urlMatchesAny
urlMatchesAny(url, urlList) == someMatches(parseUrlForMatching(url), urlList)

(***************************************************************************)
(* blocking-overlay.ts: the content script's own matching                  *)
(***************************************************************************)

\* hasSpecificPath of the content script: on the entry as written and the
\* pathname of its parsed form.
overlayHasSpecificPath(listUrl, pathname) ==
    Len(stripTrailingSlash(pathname)) > 0 \/ includes(listUrl, <<"?">>)

\* (parsed.pathname + parsed.search).replace(/\/$/, "")
overlayPath(parsed) == stripTrailingSlash(parsed.pathname \o parsed.search)

\* The body of the content script's callback, given listParsed.
overlayCompare(targetParsed, listUrl, listParsed) ==
    IF ~listParsed.ok THEN FALSE
    ELSE IF ~hostnameMatches(normalizeHostname(targetParsed.hostname),
                             normalizeHostname(listParsed.hostname))
    THEN FALSE
    ELSE IF overlayHasSpecificPath(listUrl, listParsed.pathname)
    THEN pathMatches(overlayPath(targetParsed), overlayPath(listParsed))
    ELSE TRUE

\* The some() of the content script's urlMatchesAny, given targetParsed.
overlaySome(targetParsed, urlList) ==
    IF ~targetParsed.ok THEN FALSE
    ELSE \E i \in 1..Len(urlList) :
            overlayCompare(targetParsed, urlList[i],
                           URLParse(urlToParse(urlList[i])))

\* urlMatchesAny of the content script
overlayUrlMatchesAny(url, urlList) ==
    overlaySome(URLParse(urlToParse(url)), urlList)

(***************************************************************************)
(* The state: one build of the extension, its always-allowed cache, and    *)
(* the inputs and result of the engine call under study                    *)
(***************************************************************************)

VARIABLES
    build,                 \* "chrome" (extension-google) or "firefox"
    cachedAllowedDomains,  \* the always-allowed domain cache
    lastFetchTime,         \* when the cache was last refreshed
    url,                   \* the navigation target
    session,               \* the session descriptor, or NullSession
    result,                \* the last engine call and what it returned
    now,                   \* Date.now()
    calls,                 \* the fetchAllowedDomains calls, by caller
    decidedWith,           \* the cache the last shouldBlockUrl call read
    store,                 \* the user's session documents in Firestore
    logs,                  \* the logTabSwitchAttempt calls, by caller
    currentSession,        \* the background's cached active session
    currentUserId,         \* the background's user
    sessionUnsubscribe,    \* the background's session listener
    storedCredentials,     \* chrome.storage.local[AUTH_STORAGE_KEY]
    handlers,              \* the credential handlers, by message type
    arrivals,              \* the credential messages, in arrival order
    tabs,                  \* the open tabs
    tasks,                 \* the tab sweeps awaiting chrome.tabs.query
    preOpenedUrls,         \* the Firefox background's preOpenedUrls
    windows                \* the web app's dashboard windows

\* The state of the background script.
workerVars ==
    <<currentSession, currentUserId, sessionUnsubscribe, storedCredentials,
      handlers, arrivals>>

\* The state of the browser's tabs and of the background's work on them.
tabVars == <<tabs, tasks, preOpenedUrls>>

\* The state outside url-blocker.ts: the store, the background script, the
\* tabs and the web app.
backgroundVars == <<store, logs, workerVars, tabVars, windows>>

\* The state of url-blocker.ts and its callers, the clock apart.
engineVars ==
    <<build, cachedAllowedDomains, lastFetchTime, url, session, result, calls,
      decidedWith>>

vars ==
    <<build, cachedAllowedDomains, lastFetchTime, url, session, result, now,
      calls, decidedWith, store, logs, currentSession, currentUserId,
      sessionUnsubscribe, storedCredentials, handlers, arrivals, tabs, tasks,
      preOpenedUrls, windows>>

NullSession == [status |-> "null"]

(***************************************************************************)
(* url-blocker.ts: the block decision                                      *)
(***************************************************************************)

pChrome == <<"c", "h", "r", "o", "m", "e", ":">>
pChromeExtension ==
    <<"c", "h", "r", "o", "m", "e", "-", "e", "x", "t", "e", "n", "s", "i",
      "o", "n", ":">>
pAbout == <<"a", "b", "o", "u", "t", ":">>
pEdge == <<"e", "d", "g", "e", ":">>
pBrave == <<"b", "r", "a", "v", "e", ":">>
pOpera == <<"o", "p", "e", "r", "a", ":">>
pVivaldi == <<"v", "i", "v", "a", "l", "d", "i", ":">>
pMozExtension ==
    <<"m", "o", "z", "-", "e", "x", "t", "e", "n", "s", "i", "o", "n", ":">>
pFile == <<"f", "i", "l", "e", ":">>
pResource == <<"r", "e", "s", "o", "u", "r", "c", "e", ":">>

\* internalProtocols of extension-google's isInternalUrl
internalProtocolsChrome ==
    <<pChrome, pChromeExtension, pAbout, pEdge, pBrave, pOpera, pVivaldi,
      pMozExtension, pFile>>

\* internalProtocols of extension-firefox's isInternalUrl
internalProtocolsFirefox ==
    <<pChrome, pChromeExtension, pAbout, pMozExtension, pFile, pResource>>

internalProtocols ==
    IF build = "chrome" THEN internalProtocolsChrome
    ELSE internalProtocolsFirefox

\* protocol.replace(":", "") : the first colon removed
removeColon(s) ==
    LET c == IndexIn(s, {":"}, 1)
    IN  SubSeq(s, 1, c - 1) \o SubSeq(s, c + 1, Len(s))

\* hasInternalProtocol with the operands of startsWith exchanged.
hasInternalProtocolSwapped(parsed) ==
    IF parsed.ok
    THEN \E i \in 1..Len(internalProtocols) :
             startsWith(removeColon(internalProtocols[i]), parsed.protocol)
    ELSE TRUE

\* hasInternalProtocol whose catch block answers false.
hasInternalProtocolCatchFalse(parsed) ==
    IF parsed.ok
    THEN \E i \in 1..Len(internalProtocols) :
             startsWith(parsed.protocol, removeColon(internalProtocols[i]))
    ELSE FALSE

\* The try/catch of isInternalUrl, given what new URL(url) did.
hasInternalProtocol(parsed) ==
    IF parsed.ok
    THEN \E i \in 1..Len(internalProtocols) :
             startsWith(parsed.protocol, removeColon(internalProtocols[i]))
    ELSE TRUE

\* isInternalUrl: a browser-internal page, or a string new URL cannot parse.
isInternalUrl(u) == hasInternalProtocol(URLParse(u))

\* getAllowedDomains that answers the hardcoded default list.
getAllowedDomainsDefault ==
    <<dLocalhost, dLoopback, dVercel, dAnshul>>

\* getAllowedDomains
getAllowedDomains == cachedAllowedDomains

\* isAllowedHost that accepts the listed domains only, not their subdomains.
isAllowedHostExactOnly(hostname, allowedDomains) ==
    IF ~hostname.ok \/ Len(hostname.value) = 0 THEN FALSE
    ELSE \E i \in 1..Len(allowedDomains) :
             hostname.value = allowedDomains[i]

\* The body of isFlowApp, given extractHostname(url) and the allowed domains:
\* a null or empty hostname is falsy.
isAllowedHost(hostname, allowedDomains) ==
    IF ~hostname.ok \/ Len(hostname.value) = 0 THEN FALSE
    ELSE \E i \in 1..Len(allowedDomains) :
             \/ hostname.value = allowedDomains[i]
             \/ endsWith(hostname.value, <<".">> \o allowedDomains[i])

\* isFlowApp: the hostname is an always-allowed domain or a subdomain of one.
isFlowApp(u) == isAllowedHost(extractHostname(u), getAllowedDomains)

\* The verdict of a mode on matchesListedUrl.
modeVerdict(mode, matchesListedUrl) ==
    IF mode = "allowlist" THEN ~matchesListedUrl ELSE matchesListedUrl

\* shouldBlockUrl that tests the session for null only, not its status.
shouldBlockUrlNoStatusCheck(u, s) ==
    IF s = NullSession THEN FALSE
    ELSE IF isInternalUrl(u) THEN FALSE
    ELSE IF isFlowApp(u) THEN FALSE
    ELSE IF Len(s.urls) = 0 THEN s.mode = "allowlist"
    ELSE modeVerdict(s.mode, urlMatchesAny(u, s.urls))

\* shouldBlockUrl whose allowlist branch is not negated.
shouldBlockUrlAllowlistNotNegated(u, s) ==
    IF s = NullSession \/ s.status # "active" THEN FALSE
    ELSE IF isInternalUrl(u) THEN FALSE
    ELSE IF isFlowApp(u) THEN FALSE
    ELSE IF Len(s.urls) = 0 THEN s.mode = "allowlist"
    ELSE urlMatchesAny(u, s.urls)

\* shouldBlockUrl that blocks nothing when the list is empty.
shouldBlockUrlEmptyBlocksNothing(u, s) ==
    IF s = NullSession \/ s.status # "active" THEN FALSE
    ELSE IF isInternalUrl(u) THEN FALSE
    ELSE IF isFlowApp(u) THEN FALSE
    ELSE IF Len(s.urls) = 0 THEN FALSE
    ELSE modeVerdict(s.mode, urlMatchesAny(u, s.urls))

\* shouldBlockUrl
shouldBlockUrl(u, s) ==
    IF s = NullSession \/ s.status # "active" THEN FALSE
    ELSE IF isInternalUrl(u) THEN FALSE
    ELSE IF isFlowApp(u) THEN FALSE
    ELSE IF Len(s.urls) = 0 THEN s.mode = "allowlist"
    ELSE modeVerdict(s.mode, urlMatchesAny(u, s.urls))

(***************************************************************************)
(* Input sets                                                              *)
(***************************************************************************)

\* The initial value of cachedAllowedDomains.
DefaultAllowedDomains == <<dLocalhost, dLoopback, dVercel, dAnshul>>

\* A list the config endpoint may answer with.
ServerAllowedDomains == <<dExample>>

CacheValues == {DefaultAllowedDomains, ServerAllowedDomains}

\* The longest urls list of a session.
MaxUrls == 2

\* The urls lists over a set of entries: no entry twice (the web app adds
\* no duplicate), at most MaxUrls entries.
UrlLists(entries) ==
    UNION { {l \in [1..k -> entries] :
                \A i, j \in 1..k : i # j => l[i] # l[j]} : k \in 0..MaxUrls }

Modes == {"allowlist", "blocklist"}
Statuses == {"active", "completed", "stopped"}

Sessions(entries, statuses) ==
    [status : statuses, mode : Modes, urls : UrlLists(entries)]

\* Navigation targets and list entries of the decision-policy runs.
PolicyTargets ==
    {tExample, tExampleVideos123, tExampleOther, tSubExample, tYoutubeXyz,
     tLocalhost, tFlow, tNotLocalhost, tSchemeless, tMalformed, tData,
     tChrome, tChromeExtension, tAbout, tEdge, tBrave, tOpera, tVivaldi,
     tMozExtension, tFile, tResource}

PolicyEntries == {eExample, eVideos, eLocalhost, eMalformed}

\* Navigation targets and list entries of the matching runs.
MatchTargets ==
    {tExample, tExampleRoot, tExampleDeep, tExampleVideos, tExampleVideosSlash,
     tExampleVideos123, tExampleVideosQuery, tExampleOther, tExampleFragment,
     tExampleUpper, tWwwExample, tSubExample, tOtherExample, tNotExample,
     tYoutubeAbc, tYoutubeAbcT, tDocs, tSchemeless, tMalformed}

MatchEntries ==
    {eExample, eExampleSlash, eExampleUpper, eWwwExample, eSubExample,
     eVideos, eVideosSlash, eVideosFull, eExampleQuestion, eYoutubeAbc,
     eDocs, eMalformed}

(***************************************************************************)
(* The engine calls                                                        *)
(***************************************************************************)

NoCall == [op |-> "none", value |-> FALSE]

\* const CACHE_DURATION = 5 * 60 * 1000, in milliseconds
CACHE_DURATION == 5 * 60 * 1000

\* The clock advances by half a cool-down at a time.
TickStep == CACHE_DURATION \div 2

\* Date.now() when the module is loaded: more than a cool-down after the
\* epoch, to which lastFetchTime is initialised.
StartTime == 2 * CACHE_DURATION

\* The number of times the clock advances within a run.
MaxTicks == 2

\* The candidate endpoints of a refresh round, in their listed order.
urls ==
    <<"http://localhost:3001/api/config/allowed-domains",
      "http://localhost:3000/api/config/allowed-domains",
      "https://flow.anshul.space/api/config/allowed-domains">>

\* The callers whose fetchAllowedDomains calls may overlap.
Callers == {"first", "second"}

\* The domains arrays a config endpoint may answer with.
ServerLists == {ServerAllowedDomains, << >>}

\* The ways an endpoint fails: fetch rejects, the response is not ok,
\* response.json() rejects, the body carries no domains array.
FetchFailures == {"throws", "notOk"}
JsonFailures == {"badJson", "noDomains"}

NotYet == [ok |-> FALSE]

\* A call that has not been made.  pc: "idle", "fetch" (awaiting fetch(url)),
\* "json" (awaiting response.json()) or "done"; now: the call's const now;
\* i: the index in urls of the endpoint last requested (0: none); last: what
\* that endpoint answered; wrote: the call assigned the cache; returned: the
\* value the promise resolved with.
IdleCall ==
    [pc |-> "idle", now |-> 0, i |-> 0, last |-> "none", wrote |-> FALSE,
     returned |-> NotYet]

NoCalls == [c \in Callers |-> IdleCall]

(***************************************************************************)
(* The store and the background script: values                             *)
(***************************************************************************)

\* The ids of the session documents of the one user of the model.
SessionIds == {1, 2}

\* A session document that has not been created.  status: "none",
\* "active", "stopped" or "completed"; attempts: the number of documents in
\* its attempts subcollection.
NoDoc ==
    [status |-> "none", mode |-> "blocklist", urls |-> << >>,
     startedAt |-> 0, endedAt |-> 0, tabSwitchAttempts |-> 0, attempts |-> 0]

NoStore == [s \in SessionIds |-> NoDoc]

\* The places logTabSwitchAttempt is called from.
Loggers == {"onBeforeNavigate", "onCommitted", "checkAllOpenTabs"}

\* A logTabSwitchAttempt call that has not been made.  pc: "idle", "addDoc",
\* "getDoc", "updateDoc" (each awaiting that call) or "done"; read: the
\* counter getDoc returned.
IdleLog == [pc |-> "idle", sessionId |-> 0, read |-> 0]

NoLogs == [k \in Loggers |-> IdleLog]

\* The one user of the model, and currentUserId when there is none.
Uid == "u1"
NoUser == "none"

\* What a listener has delivered before its first snapshot.
NothingYet == [status |-> "nothing"]

\* sessionUnsubscribe when null.
NoListener == [on |-> FALSE, live |-> FALSE, last |-> NothingYet]

\* A listener setupSessionListener has just attached.  live: no error has
\* ended it; last: the query result it delivered last (NothingYet: none,
\* NullSession: an empty snapshot).
NewListener == [on |-> TRUE, live |-> TRUE, last |-> NothingYet]

\* A credential handler that is not running.  pc: "idle", "stop" (awaiting
\* stopActiveSession), "set" or "remove" (awaiting chrome.storage.local) or
\* "done"; sessionId: the argument of stopActiveSession; behind: the
\* storage call was made while the other handler's was pending, and
\* completes after it.
IdleHandler == [pc |-> "idle", sessionId |-> 0, behind |-> FALSE]

NoHandlers == [h \in {"clear", "store"} |-> IdleHandler]

\* No tab sweep awaits chrome.tabs.query.  check: the checkAllOpenTabs
\* calls, notify: the notifyAllTabsSessionEnded calls in flight.
NoTasks == [check |-> 0, notify |-> 0]

\* No tab is open.
NoTabs == << >>

\* A dashboard window that has not heard of a session.  activeSession: the
\* id subscribeToActiveSession delivered last (0: null); timer: the session
\* autoCompleteTimerRef is set for (0: none).
IdleWindow == [activeSession |-> 0, timer |-> 0]

\* The dashboard windows of the user.
Windows == {"w1", "w2"}

NoWindows == [w \in Windows |-> IdleWindow]

\* The background script as loaded with no stored credentials.
WorkerAtRest ==
    /\ currentSession = NullSession
    /\ currentUserId = NoUser
    /\ sessionUnsubscribe = NoListener
    /\ storedCredentials = NoUser
    /\ handlers = NoHandlers
    /\ arrivals = << >>

\* No tab is open and no sweep is in flight.
TabsAtRest ==
    /\ tabs = NoTabs
    /\ tasks = NoTasks
    /\ preOpenedUrls = {}

\* The store and the background script untouched.
BackgroundAtRest ==
    /\ store = NoStore
    /\ logs = NoLogs
    /\ WorkerAtRest
    /\ TabsAtRest
    /\ windows = NoWindows

\* The decision policy under every build, cache value, session and target.
Init ==
    /\ build \in {"chrome", "firefox"}
    /\ cachedAllowedDomains \in CacheValues
    /\ lastFetchTime = 0
    /\ url \in PolicyTargets
    /\ session \in {NullSession} \cup Sessions(PolicyEntries, Statuses)
    /\ result = NoCall
    /\ now = StartTime
    /\ calls = NoCalls
    /\ decidedWith = NotYet
    /\ BackgroundAtRest

\* The matching algorithm under the freshly loaded extension and an active
\* session.
InitMatch ==
    /\ build = "chrome"
    /\ cachedAllowedDomains = DefaultAllowedDomains
    /\ lastFetchTime = 0
    /\ url \in MatchTargets
    /\ session \in Sessions(MatchEntries, {"active"})
    /\ result = NoCall
    /\ now = StartTime
    /\ calls = NoCalls
    /\ decidedWith = NotYet
    /\ BackgroundAtRest

\* Navigation targets and sessions of the cache-refresh runs: the web app
\* and a site that a config endpoint may come to allow, both blocklisted.
FetchTargets == {tLocalhost, tExample}

FetchSessions ==
    {[status |-> "active", mode |-> "blocklist",
      urls |-> <<eLocalhost, eExample>>]}

\* The freshly loaded extension: the default cache, no refresh yet.
InitFetch ==
    /\ build = "chrome"
    /\ cachedAllowedDomains = DefaultAllowedDomains
    /\ lastFetchTime = 0
    /\ url \in FetchTargets
    /\ session \in FetchSessions
    /\ result = NoCall
    /\ now = StartTime
    /\ calls = NoCalls
    /\ decidedWith = NotYet
    /\ BackgroundAtRest

\* shouldBlockUrl that stamps lastFetchTime, as a refresh does.
ShouldBlockUrlStampingTime ==
    /\ result' = [op |-> "shouldBlockUrl", value |-> shouldBlockUrl(url, session)]
    /\ decidedWith' = [ok |-> TRUE, value |-> cachedAllowedDomains]
    /\ lastFetchTime' = now
    /\ UNCHANGED <<build, cachedAllowedDomains, url, session, now, calls>>
    /\ UNCHANGED backgroundVars

\* A navigation event: the caller asks shouldBlockUrl(url, session).
ShouldBlockUrl ==
    /\ result' = [op |-> "shouldBlockUrl", value |-> shouldBlockUrl(url, session)]
    /\ decidedWith' = [ok |-> TRUE, value |-> cachedAllowedDomains]
    /\ UNCHANGED <<build, cachedAllowedDomains, lastFetchTime, url, session,
                   now, calls>>
    /\ UNCHANGED backgroundVars

\* A caller asks urlMatchesAny(url, session.urls).
UrlMatchesAny ==
    /\ session # NullSession
    /\ result' = [op |-> "urlMatchesAny",
                  value |-> urlMatchesAny(url, session.urls)]
    /\ UNCHANGED <<build, cachedAllowedDomains, lastFetchTime, url, session,
                   now, calls, decidedWith>>
    /\ UNCHANGED backgroundVars

Next == ShouldBlockUrl \/ UrlMatchesAny

Spec == Init /\ [][Next]_vars

SpecMatch == InitMatch /\ [][Next]_vars

(***************************************************************************)
(* fetchAllowedDomains: one action per stretch of the async function       *)
(* between two awaits                                                      *)
(***************************************************************************)

\* fetchAllowedDomains with the cool-down one millisecond longer.
cacheIsFreshInclusive(callNow) ==
    callNow - lastFetchTime <= CACHE_DURATION
    /\ Len(cachedAllowedDomains) > 0

\* The cool-down test at the head of fetchAllowedDomains.
cacheIsFresh(callNow) ==
    callNow - lastFetchTime < CACHE_DURATION /\ Len(cachedAllowedDomains) > 0

\* return cachedAllowedDomains
returnCached(call, answer) ==
    [call EXCEPT !.pc = "done", !.last = answer,
                 !.returned = [ok |-> TRUE, value |-> cachedAllowedDomains]]

\* The for loop goes on after endpoint call.i has failed with `answer`: the
\* next endpoint is requested, or the loop ends and the cache is returned.
tryNext(call, answer) ==
    IF call.i < Len(urls)
    THEN [call EXCEPT !.pc = "fetch", !.i = call.i + 1, !.last = answer]
    ELSE returnCached(call, answer)

\* A caller calls fetchAllowedDomains(): within the cool-down the cache is
\* returned at once, otherwise the first endpoint is requested.  The
\* caller named "second" is the one whose first call comes later; it calls
\* again once its call has returned.
FetchAllowedDomains(c) ==
    /\ calls[c].pc \in (IF c = "second" THEN {"idle", "done"} ELSE {"idle"})
    /\ c = "second" => calls["first"].pc # "idle"
    /\ calls' = [calls EXCEPT ![c] =
                    IF cacheIsFresh(now)
                    THEN returnCached([IdleCall EXCEPT !.now = now], "none")
                    ELSE [IdleCall EXCEPT !.pc = "fetch", !.now = now,
                                          !.i = 1]]
    /\ UNCHANGED <<build, cachedAllowedDomains, lastFetchTime, url, session,
                   result, now, decidedWith>>
    /\ UNCHANGED backgroundVars

\* A failed fetch that falls back to the hardcoded default list.
FetchFailsResettingCache(c) ==
    /\ calls[c].pc = "fetch"
    /\ \E answer \in FetchFailures :
          calls' = [calls EXCEPT ![c] = tryNext(@, answer)]
    /\ cachedAllowedDomains' = DefaultAllowedDomains
    /\ UNCHANGED <<build, lastFetchTime, url, session, result, now,
                   decidedWith>>
    /\ UNCHANGED backgroundVars

\* await fetch(url) rejects, or resolves with a response that is not ok.
FetchFails(c) ==
    /\ calls[c].pc = "fetch"
    /\ \E answer \in FetchFailures :
          calls' = [calls EXCEPT ![c] = tryNext(@, answer)]
    /\ UNCHANGED <<build, cachedAllowedDomains, lastFetchTime, url, session,
                   result, now, decidedWith>>
    /\ UNCHANGED backgroundVars

\* await fetch(url) resolves with an ok response: response.json() is awaited.
FetchOk(c) ==
    /\ calls[c].pc = "fetch"
    /\ calls' = [calls EXCEPT ![c] = [@ EXCEPT !.pc = "json", !.last = "ok"]]
    /\ UNCHANGED <<build, cachedAllowedDomains, lastFetchTime, url, session,
                   result, now, decidedWith>>
    /\ UNCHANGED backgroundVars

\* await response.json() rejects, or resolves with a body whose domains is
\* missing or no array.
JsonFails(c) ==
    /\ calls[c].pc = "json"
    /\ \E answer \in JsonFailures :
          calls' = [calls EXCEPT ![c] = tryNext(@, answer)]
    /\ UNCHANGED <<build, cachedAllowedDomains, lastFetchTime, url, session,
                   result, now, decidedWith>>
    /\ UNCHANGED backgroundVars

\* A successful answer after which the loop goes on to the next endpoint.
JsonDomainsThenNext(c) ==
    /\ calls[c].pc = "json"
    /\ \E domains \in ServerLists :
          /\ cachedAllowedDomains' = domains
          /\ lastFetchTime' = calls[c].now
          /\ calls' = [calls EXCEPT ![c] =
                          IF @.i < Len(urls)
                          THEN [@ EXCEPT !.pc = "fetch", !.i = @ + 1,
                                         !.last = "domains", !.wrote = TRUE]
                          ELSE [@ EXCEPT !.pc = "done", !.last = "domains",
                                         !.wrote = TRUE,
                                         !.returned = [ok |-> TRUE,
                                                       value |-> domains]]]
    /\ UNCHANGED <<build, url, session, result, now, decidedWith>>
    /\ UNCHANGED backgroundVars

\* A successful answer that stores the list without stamping lastFetchTime.
JsonDomainsWithoutTime(c) ==
    /\ calls[c].pc = "json"
    /\ \E domains \in ServerLists :
          /\ cachedAllowedDomains' = domains
          /\ calls' = [calls EXCEPT ![c] =
                          [@ EXCEPT !.pc = "done", !.last = "domains",
                                    !.wrote = TRUE,
                                    !.returned = [ok |-> TRUE,
                                                  value |-> domains]]]
    /\ UNCHANGED <<build, lastFetchTime, url, session, result, now,
                   decidedWith>>
    /\ UNCHANGED backgroundVars

\* await response.json() resolves with a body that carries a domains array:
\* the cache and lastFetchTime are assigned and the cache is returned.
JsonDomains(c) ==
    /\ calls[c].pc = "json"
    /\ \E domains \in ServerLists :
          /\ cachedAllowedDomains' = domains
          /\ lastFetchTime' = calls[c].now
          /\ calls' = [calls EXCEPT ![c] =
                          [@ EXCEPT !.pc = "done", !.last = "domains",
                                    !.wrote = TRUE,
                                    !.returned = [ok |-> TRUE,
                                                  value |-> domains]]]
    /\ UNCHANGED <<build, url, session, result, now, decidedWith>>
    /\ UNCHANGED backgroundVars

\* Time passes.
Tick ==
    /\ now < StartTime + MaxTicks * TickStep
    /\ now' = now + TickStep
    /\ UNCHANGED <<build, cachedAllowedDomains, lastFetchTime, url, session,
                   result, calls, decidedWith>>
    /\ UNCHANGED backgroundVars

NextFetch ==
    \/ \E c \in Callers : FetchAllowedDomains(c)
    \/ \E c \in Callers : FetchFails(c)
    \/ \E c \in Callers : FetchOk(c)
    \/ \E c \in Callers : JsonFails(c)
    \/ \E c \in Callers : JsonDomains(c)
    \/ Tick
    \/ ShouldBlockUrl

SpecFetch == InitFetch /\ [][NextFetch]_vars

(***************************************************************************)
(* logTabSwitchAttempt and incrementTabSwitchAttempts: one action per      *)
(* await                                                                   *)
(***************************************************************************)

\* A session document as createSession writes it, started at time t.
NewDoc(t, mode, list) ==
    [NoDoc EXCEPT !.status = "active", !.mode = mode, !.urls = list,
                  !.startedAt = t]

\* An earlier session, stopped, and the session in force; no attempt has
\* been logged.
InitLog ==
    /\ build = "chrome"
    /\ cachedAllowedDomains = DefaultAllowedDomains
    /\ lastFetchTime = 0
    /\ url = tExample
    /\ session = NullSession
    /\ result = NoCall
    /\ now = StartTime
    /\ calls = NoCalls
    /\ decidedWith = NotYet
    /\ store = [s \in SessionIds |->
                   IF s = 1
                   THEN [NewDoc(0, "blocklist", <<eExample>>)
                           EXCEPT !.status = "stopped",
                                  !.endedAt = StartTime]
                   ELSE NewDoc(StartTime, "blocklist", <<eExample>>)]
    /\ logs = NoLogs
    /\ WorkerAtRest
    /\ TabsAtRest
    /\ windows = NoWindows

\* logTabSwitchAttempt(userId, sessionId, attemptedUrl) is called: addDoc
\* is awaited.
LogTabSwitchAttempt(k) ==
    /\ logs[k].pc = "idle"
    /\ \E s \in SessionIds :
          logs' = [logs EXCEPT ![k] = [pc |-> "addDoc", sessionId |-> s,
                                       read |-> 0]]
    /\ UNCHANGED <<engineVars, now, store, workerVars, tabVars, windows>>

\* addDoc resolves: the attempt record is in the subcollection, and
\* incrementTabSwitchAttempts awaits getDoc.
AddDoc(k) ==
    /\ logs[k].pc = "addDoc"
    /\ store' = [store EXCEPT ![logs[k].sessionId].attempts = @ + 1]
    /\ logs' = [logs EXCEPT ![k].pc = "getDoc"]
    /\ UNCHANGED <<engineVars, now, workerVars, tabVars, windows>>

\* getDoc resolves: the counter is read, and updateDoc is awaited.
GetDoc(k) ==
    /\ logs[k].pc = "getDoc"
    /\ logs' = [logs EXCEPT
                  ![k].pc = "updateDoc",
                  ![k].read = store[logs[k].sessionId].tabSwitchAttempts]
    /\ UNCHANGED <<engineVars, now, store, workerVars, tabVars, windows>>

\* updateDoc resolves: the counter is the value read plus one.
UpdateDoc(k) ==
    /\ logs[k].pc = "updateDoc"
    /\ store' = [store EXCEPT ![logs[k].sessionId].tabSwitchAttempts =
                                  logs[k].read + 1]
    /\ logs' = [logs EXCEPT ![k].pc = "done"]
    /\ UNCHANGED <<engineVars, now, workerVars, tabVars, windows>>

NextLog ==
    \/ \E k \in Loggers : LogTabSwitchAttempt(k)
    \/ \E k \in Loggers : AddDoc(k)
    \/ \E k \in Loggers : GetDoc(k)
    \/ \E k \in Loggers : UpdateDoc(k)

SpecLog == InitLog /\ [][NextLog]_vars

(***************************************************************************)
(* The background script: credentials, the session listener and the tab    *)
(* sweeps, one action per handler or per stretch between two awaits        *)
(***************************************************************************)

\* The number of credential messages that arrive within a run.
MaxMessages == 3

\* The number of calls of one tab sweep that may await chrome.tabs.query
\* at once.
MaxPending == 1

\* The number up to which the attempts logged for a tab are counted.
MaxLogged == 2

\* snapshot.docs[0] as a FocusSession: the document with its id.
sessionOf(s) ==
    [id |-> s, status |-> store[s].status, mode |-> store[s].mode,
     urls |-> store[s].urls]

ActiveIds == {s \in SessionIds : store[s].status = "active"}

\* where("status", "==", "active"), orderBy("startedAt", "desc"), limit(1):
\* the documents the query may put first.
LatestActive ==
    {s \in ActiveIds :
        \A r \in ActiveIds : store[r].startedAt <= store[s].startedAt}

\* What the listener's query holds: NullSession for an empty snapshot.
QueryResults ==
    IF ActiveIds = {} THEN {NullSession}
    ELSE {sessionOf(s) : s \in LatestActive}

\* handlers with handler h at pc, its storage call queued behind the other
\* handler's when that one is pending.
issueStorage(h, other, pc, pending) ==
    [handlers EXCEPT ![h] = [pc |-> pc, sessionId |-> 0,
                             behind |-> handlers[other].pc = pending]]

\* handlers when the storage call of handler h has completed.
storageDone(h, other) ==
    [handlers EXCEPT ![h] = [@ EXCEPT !.pc = "done", !.behind = FALSE],
                     ![other] = [@ EXCEPT !.behind = FALSE]]

\* A STORE_AUTH_CREDENTIALS message arrives: handleStoreCredentials calls
\* chrome.storage.local.set and awaits its callback.
HandleStoreCredentials ==
    /\ handlers["store"].pc \in {"idle", "done"}
    /\ Len(arrivals) < MaxMessages
    /\ handlers' = issueStorage("store", "clear", "set", "remove")
    /\ arrivals' = Append(arrivals, "STORE")
    /\ UNCHANGED <<engineVars, now, store, logs, currentSession,
                   currentUserId, sessionUnsubscribe, storedCredentials,
                   tabVars, windows>>

\* The set completes: the credentials are stored, the storage.onChanged
\* listener and then the handler take the user and attach a listener.
StorageSet ==
    /\ handlers["store"].pc = "set"
    /\ ~handlers["store"].behind
    /\ storedCredentials' = Uid
    /\ currentUserId' = Uid
    /\ sessionUnsubscribe' = NewListener
    /\ handlers' = storageDone("store", "clear")
    /\ UNCHANGED <<engineVars, now, store, logs, currentSession, arrivals,
                   tabVars, windows>>

\* A CLEAR_AUTH_CREDENTIALS message arrives: handleClearCredentials awaits
\* stopActiveSession if an active session is cached, and otherwise calls
\* chrome.storage.local.remove at once.
HandleClearCredentials ==
    /\ handlers["clear"].pc \in {"idle", "done"}
    /\ Len(arrivals) < MaxMessages
    /\ handlers' =
          IF /\ currentSession # NullSession
             /\ currentUserId # NoUser
             /\ currentSession.status = "active"
          THEN [handlers EXCEPT !["clear"] =
                    [pc |-> "stop", sessionId |-> currentSession.id,
                     behind |-> FALSE]]
          ELSE issueStorage("clear", "store", "remove", "set")
    /\ arrivals' = Append(arrivals, "CLEAR")
    /\ UNCHANGED <<engineVars, now, store, logs, currentSession,
                   currentUserId, sessionUnsubscribe, storedCredentials,
                   tabVars, windows>>

\* stopActiveSession's updateDoc resolves: the document is stopped, and the
\* handler goes on to remove the credentials.
StopActiveSession ==
    /\ handlers["clear"].pc = "stop"
    /\ store' = [store EXCEPT ![handlers["clear"].sessionId] =
                    [@ EXCEPT !.status = "stopped", !.endedAt = now]]
    /\ handlers' = issueStorage("clear", "store", "remove", "set")
    /\ UNCHANGED <<engineVars, now, logs, currentSession, currentUserId,
                   sessionUnsubscribe, storedCredentials, arrivals, tabVars,
                   windows>>

\* stopActiveSession rejects: the error is caught, and the handler goes on
\* to remove the credentials.
StopActiveSessionFails ==
    /\ handlers["clear"].pc = "stop"
    /\ handlers' = issueStorage("clear", "store", "remove", "set")
    /\ UNCHANGED <<engineVars, now, store, logs, currentSession,
                   currentUserId, sessionUnsubscribe, storedCredentials,
                   arrivals, tabVars, windows>>

\* The remove completes, but cleanupSessionListener leaves the user in
\* place.
StorageRemoveKeepingUser ==
    /\ handlers["clear"].pc = "remove"
    /\ ~handlers["clear"].behind
    /\ storedCredentials' = NoUser
    /\ sessionUnsubscribe' = NoListener
    /\ currentSession' = NullSession
    /\ handlers' = storageDone("clear", "store")
    /\ UNCHANGED <<engineVars, now, store, logs, currentUserId, arrivals,
                   tabVars, windows>>

\* The remove completes: the credentials are gone, and the
\* storage.onChanged listener and then the handler call
\* cleanupSessionListener.
StorageRemove ==
    /\ handlers["clear"].pc = "remove"
    /\ ~handlers["clear"].behind
    /\ storedCredentials' = NoUser
    /\ sessionUnsubscribe' = NoListener
    /\ currentSession' = NullSession
    /\ currentUserId' = NoUser
    /\ handlers' = storageDone("clear", "store")
    /\ UNCHANGED <<engineVars, now, store, logs, arrivals, tabVars, windows>>

\* The tab sweeps once the snapshot callback has dealt with result q:
\* notifyAllTabsSessionEnded on an empty snapshot, checkAllOpenTabs when the
\* session is new or its urls have changed.
tasksAfter(q) ==
    IF q = NullSession THEN [tasks EXCEPT !.notify = @ + 1]
    ELSE IF \/ currentSession = NullSession
            \/ currentSession.id # q.id
            \/ currentSession.urls # q.urls
    THEN [tasks EXCEPT !.check = @ + 1]
    ELSE tasks

\* The listener delivers a snapshot, but the callback keeps the cached
\* session when the snapshot is empty.
SessionSnapshotKeepingSession ==
    /\ sessionUnsubscribe.on
    /\ sessionUnsubscribe.live
    /\ \E q \in QueryResults :
          /\ q # sessionUnsubscribe.last
          /\ tasksAfter(q).check <= MaxPending
          /\ tasksAfter(q).notify <= MaxPending
          /\ sessionUnsubscribe' = [sessionUnsubscribe EXCEPT !.last = q]
          /\ currentSession' = IF q = NullSession THEN currentSession ELSE q
          /\ tasks' = tasksAfter(q)
          /\ preOpenedUrls' =
                IF q = NullSession /\ build = "firefox" THEN {}
                ELSE preOpenedUrls
    /\ UNCHANGED <<engineVars, now, store, logs, currentUserId,
                   storedCredentials, handlers, arrivals, tabs, windows>>

\* The listener delivers a snapshot of its query.
SessionSnapshot ==
    /\ sessionUnsubscribe.on
    /\ sessionUnsubscribe.live
    /\ \E q \in QueryResults :
          /\ q # sessionUnsubscribe.last
          /\ tasksAfter(q).check <= MaxPending
          /\ tasksAfter(q).notify <= MaxPending
          /\ sessionUnsubscribe' = [sessionUnsubscribe EXCEPT !.last = q]
          /\ currentSession' = q
          /\ tasks' = tasksAfter(q)
          /\ preOpenedUrls' =
                IF q = NullSession /\ build = "firefox" THEN {}
                ELSE preOpenedUrls
    /\ UNCHANGED <<engineVars, now, store, logs, currentUserId,
                   storedCredentials, handlers, arrivals, tabs, windows>>

\* The listener's error callback is called; the listener is over.
SessionListenerError ==
    /\ sessionUnsubscribe.on
    /\ sessionUnsubscribe.live
    /\ sessionUnsubscribe' = [sessionUnsubscribe EXCEPT !.live = FALSE]
    /\ currentSession' = NullSession
    /\ UNCHANGED <<engineVars, now, store, logs, currentUserId,
                   storedCredentials, handlers, arrivals, tabVars, windows>>

\* logTabSwitchAttempt is called for the url of a tab: one more attempt.
logged(tab) ==
    [tab EXCEPT !.logged = IF @ < MaxLogged THEN @ + 1 ELSE @]

\* The tab receives SHOW_BLOCKING_OVERLAY.
overlaid(tab) == [tab EXCEPT !.overlay = TRUE]

\* The body of checkAllOpenTabs's loop for one tab: a blocked tab is shown
\* the overlay; the Chrome background logs an attempt for it.
checkedTab(tab) ==
    IF ~shouldBlockUrl(tab.url, currentSession) THEN tab
    ELSE IF build = "chrome" /\ currentUserId # NoUser
    THEN overlaid([tab EXCEPT !.sweepLogged = TRUE])
    ELSE overlaid(tab)

\* chrome.tabs.query resolves for a checkAllOpenTabs call.
TabsQueriedCheck ==
    /\ tasks.check > 0
    /\ tasks' = [tasks EXCEPT !.check = @ - 1]
    /\ tabs' = [t \in DOMAIN tabs |-> checkedTab(tabs[t])]
    /\ preOpenedUrls' =
          IF build = "firefox"
          THEN {tabs[t].url : t \in {r \in DOMAIN tabs :
                                shouldBlockUrl(tabs[r].url, currentSession)}}
          ELSE preOpenedUrls
    /\ UNCHANGED <<engineVars, now, store, logs, workerVars, windows>>

\* chrome.tabs.query resolves for a notifyAllTabsSessionEnded call: every
\* tab receives REMOVE_BLOCKING_OVERLAY.
TabsQueriedNotify ==
    /\ tasks.notify > 0
    /\ tasks' = [tasks EXCEPT !.notify = @ - 1]
    /\ tabs' = [t \in DOMAIN tabs |-> [tabs[t] EXCEPT !.overlay = FALSE]]
    /\ UNCHANGED <<engineVars, now, store, logs, workerVars, preOpenedUrls,
                   windows>>

\* The background script loaded, no credentials stored, and the user's
\* session in force.
InitAuth ==
    /\ build \in {"chrome", "firefox"}
    /\ cachedAllowedDomains = DefaultAllowedDomains
    /\ lastFetchTime = 0
    /\ url = tExample
    /\ session = NullSession
    /\ result = NoCall
    /\ now = StartTime
    /\ calls = NoCalls
    /\ decidedWith = NotYet
    /\ store = [s \in SessionIds |->
                   IF s = 1
                   THEN [NewDoc(0, "blocklist", <<eExample>>)
                           EXCEPT !.status = "stopped",
                                  !.endedAt = StartTime]
                   ELSE NewDoc(StartTime, "blocklist", <<eExample>>)]
    /\ logs = NoLogs
    /\ WorkerAtRest
    /\ TabsAtRest
    /\ windows = NoWindows

NextAuth ==
    \/ HandleStoreCredentials
    \/ StorageSet
    \/ HandleClearCredentials
    \/ StopActiveSession
    \/ StopActiveSessionFails
    \/ StorageRemove
    \/ SessionSnapshot
    \/ SessionListenerError
    \/ TabsQueriedCheck
    \/ TabsQueriedNotify

SpecAuth == InitAuth /\ [][NextAuth]_vars

(***************************************************************************)
(* The web application: session-service.ts as called by the create page,   *)
(* the dashboard, and the session card of each window                      *)
(***************************************************************************)

\* The store after updateDoc(sessionRef, {status, endedAt: Timestamp.now()}).
ended(s, status) ==
    [store EXCEPT ![s] = [@ EXCEPT !.status = status, !.endedAt = now]]

\* handleSubmit of the create page: createSession adds a document with
\* status "active" and startedAt Timestamp.now().
CreateSession ==
    /\ \E s \in SessionIds :
          /\ store[s].status = "none"
          /\ store' = [store EXCEPT ![s] =
                          NewDoc(now, "blocklist", <<eExample>>)]
    /\ UNCHANGED <<engineVars, now, logs, workerVars, tabVars, windows>>

\* The dashboard's subscribeToActiveSession callback in window w:
\* setActiveSession, and scheduleAutoComplete for an active session, which
\* replaces the timer; a null snapshot leaves the timer as it is.
DashboardSnapshot(w) ==
    /\ \E q \in QueryResults :
          windows' = [windows EXCEPT ![w] =
              IF q = NullSession THEN [@ EXCEPT !.activeSession = 0]
              ELSE [activeSession |-> q.id, timer |-> q.id]]
    /\ windows' # windows
    /\ UNCHANGED <<engineVars, now, store, logs, workerVars, tabVars>>

\* The session card's subscribeToSession callback in window w: a session
\* that is no longer active is reported to the dashboard, whose
\* handleSessionEnd clears the timer.
CardSnapshot(w) ==
    /\ windows[w].activeSession # 0
    /\ store[windows[w].activeSession].status # "active"
    /\ windows[w].timer # 0
    /\ windows' = [windows EXCEPT ![w].timer = 0]
    /\ UNCHANGED <<engineVars, now, store, logs, workerVars, tabVars>>

\* handleStopSession of the card in window w: stopSession, then
\* onSessionEnd.
HandleStopSession(w) ==
    /\ windows[w].activeSession # 0
    /\ store' = ended(windows[w].activeSession, "stopped")
    /\ windows' = [windows EXCEPT ![w].timer = 0]
    /\ UNCHANGED <<engineVars, now, logs, workerVars, tabVars>>

\* The auto-complete timer of window w expires: completeSession.
TimerFires(w) ==
    /\ windows[w].timer # 0
    /\ store' = ended(windows[w].timer, "completed")
    /\ windows' = [windows EXCEPT ![w].timer = 0]
    /\ UNCHANGED <<engineVars, now, logs, workerVars, tabVars>>

\* No session yet, two dashboard windows open, and the background script
\* authenticated with its listener attached.
InitStore ==
    /\ build \in {"chrome", "firefox"}
    /\ cachedAllowedDomains = DefaultAllowedDomains
    /\ lastFetchTime = 0
    /\ url = tExample
    /\ session = NullSession
    /\ result = NoCall
    /\ now = StartTime
    /\ calls = NoCalls
    /\ decidedWith = NotYet
    /\ store = NoStore
    /\ logs = NoLogs
    /\ currentSession = NullSession
    /\ currentUserId = Uid
    /\ sessionUnsubscribe = NewListener
    /\ storedCredentials = Uid
    /\ handlers = NoHandlers
    /\ arrivals = << >>
    /\ TabsAtRest
    /\ windows = NoWindows

NextStore ==
    \/ CreateSession
    \/ \E w \in Windows : DashboardSnapshot(w)
    \/ \E w \in Windows : CardSnapshot(w)
    \/ \E w \in Windows : HandleStopSession(w)
    \/ \E w \in Windows : TimerFires(w)
    \/ Tick
    \/ SessionSnapshot
    \/ HandleClearCredentials
    \/ StopActiveSession
    \/ StopActiveSessionFails
    \/ StorageRemove
    \/ TabsQueriedCheck
    \/ TabsQueriedNotify

SpecStore == InitStore /\ [][NextStore]_vars

(***************************************************************************)
(* Tabs: the webNavigation and tabs listeners of the background script,    *)
(* and checkCurrentUrl of the content script                               *)
(***************************************************************************)

\* The urls the tabs visit: one the session's list names, one it does not.
NavUrls == {tExample, tDocs}

\* A tab that has loaded u.  stage: how far the navigation to url has come
\* ("before": onBeforeNavigate has fired; "committed"; "script": the content
\* script has run; "complete"); overlay: the document shows the overlay;
\* logged: the calls of logTabSwitchAttempt the navigation listeners have
\* made for this navigation; sweepLogged: checkAllOpenTabs has logged an
\* attempt for the tab; frame: the url of the tab's sub-frame.
LoadedTab(u) ==
    [url |-> u, stage |-> "complete", overlay |-> FALSE, logged |-> 0,
     sweepLogged |-> FALSE, frame |-> << >>]

TabIds == {1, 2}

\* The tabs whose document holds a sub-frame.
FrameTabs == {1}

\* internalProtocols of the content script's isInternalUrl
overlayInternalProtocols == <<pChrome, pChromeExtension, pAbout, pEdge, pBrave>>

\* isInternalUrl of the content script
overlayIsInternalUrl(u) ==
    IF URLParse(u).ok
    THEN \E i \in 1..Len(overlayInternalProtocols) :
             startsWith(URLParse(u).protocol,
                        removeColon(overlayInternalProtocols[i]))
    ELSE TRUE

\* isFlowApp of the content script: its own list of domains.
overlayIsFlowApp(u) ==
    isAllowedHost(extractHostname(u),
                  <<dLocalhost, dLoopback, dVercel, dAnshul>>)

\* What checkCurrentUrl decides on the session the background answers
\* GET_CURRENT_SESSION with: TRUE to create the overlay, FALSE to remove it.
checkCurrentUrlShows(u, s) ==
    IF s = NullSession THEN FALSE
    ELSE IF overlayIsInternalUrl(u) THEN FALSE
    ELSE IF overlayIsFlowApp(u) THEN FALSE
    ELSE IF s.mode = "allowlist" THEN ~overlayUrlMatchesAny(u, s.urls)
    ELSE IF s.mode = "blocklist" THEN overlayUrlMatchesAny(u, s.urls)
    ELSE FALSE

\* The condition under which a navigation listener logs a blocked url: a
\* session and a user, and in the Firefox background a url that
\* checkAllOpenTabs has not recorded.
logsAttempt(u) ==
    /\ currentSession # NullSession
    /\ currentUserId # NoUser
    /\ build = "firefox" => u \notin preOpenedUrls

\* The onBeforeNavigate listener for the main frame of a tab.
beforeNavigate(tab) ==
    IF shouldBlockUrl(tab.url, currentSession) /\ logsAttempt(tab.url)
    THEN logged(tab)
    ELSE tab

\* The onCommitted listener for the main frame of a tab.
committed(tab) ==
    IF ~shouldBlockUrl(tab.url, currentSession) THEN tab
    ELSE IF logsAttempt(tab.url) THEN overlaid(logged(tab))
    ELSE overlaid(tab)

\* The onCompleted and onActivated listeners for a tab.
shownIfBlocked(tab) ==
    IF shouldBlockUrl(tab.url, currentSession) THEN overlaid(tab) ELSE tab

\* The main frame of tab t starts to navigate to u: onBeforeNavigate fires.
Navigate(t, u) ==
    /\ tabs[t].stage # "before"
    /\ tabs' = [tabs EXCEPT ![t] =
                   beforeNavigate([@ EXCEPT !.url = u, !.stage = "before",
                                            !.logged = 0])]
    /\ UNCHANGED <<engineVars, now, store, logs, workerVars, tasks,
                   preOpenedUrls, windows>>

\* The navigation of tab t is committed: a new document, with no overlay and
\* no sub-frame, and onCommitted fires.
Committed(t) ==
    /\ tabs[t].stage = "before"
    /\ tabs' = [tabs EXCEPT ![t] =
                   committed([@ EXCEPT !.stage = "committed",
                                       !.overlay = FALSE,
                                       !.frame = << >>])]
    /\ UNCHANGED <<engineVars, now, store, logs, workerVars, tasks,
                   preOpenedUrls, windows>>

\* The content script of tab t initializes: checkCurrentUrl.
CheckCurrentUrl(t) ==
    /\ tabs[t].stage = "committed"
    /\ tabs' = [tabs EXCEPT ![t] =
                   [@ EXCEPT !.stage = "script",
                             !.overlay = checkCurrentUrlShows(tabs[t].url,
                                                              currentSession)]]
    /\ UNCHANGED <<engineVars, now, store, logs, workerVars, tasks,
                   preOpenedUrls, windows>>

\* The document of tab t has loaded: onCompleted fires.
Completed(t) ==
    /\ tabs[t].stage = "script"
    /\ tabs' = [tabs EXCEPT ![t] =
                   shownIfBlocked([@ EXCEPT !.stage = "complete"])]
    /\ UNCHANGED <<engineVars, now, store, logs, workerVars, tasks,
                   preOpenedUrls, windows>>

\* The user switches to tab t: onActivated fires.
OnActivated(t) ==
    /\ tabs' = [tabs EXCEPT ![t] = shownIfBlocked(@)]
    /\ UNCHANGED <<engineVars, now, store, logs, workerVars, tasks,
                   preOpenedUrls, windows>>

\* A sub-frame of tab t navigates to u: the three listeners fire with a
\* frameId other than 0 and return at once.
SubFrameNavigate(t, u) ==
    /\ tabs[t].stage = "complete"
    /\ tabs[t].frame # u
    /\ tabs' = [tabs EXCEPT ![t].frame = u]
    /\ UNCHANGED <<engineVars, now, store, logs, workerVars, tasks,
                   preOpenedUrls, windows>>

\* addUrlToSession: the entry is appended unless the list holds it.
AddUrlToSession(s, e) ==
    /\ store[s].status = "active"
    /\ ~\E i \in 1..Len(store[s].urls) : store[s].urls[i] = e
    /\ store' = [store EXCEPT ![s].urls = Append(@, e)]
    /\ UNCHANGED <<engineVars, now, logs, workerVars, tabVars, windows>>

\* urls.filter((url) => url !== urlToRemove)
RECURSIVE without(_, _)
without(list, e) ==
    IF Len(list) = 0 THEN << >>
    ELSE (IF Head(list) = e THEN << >> ELSE <<Head(list)>>)
         \o without(Tail(list), e)

\* removeUrlFromSession
RemoveUrlFromSession(s, e) ==
    /\ store[s].status = "active"
    /\ store' = [store EXCEPT ![s].urls = without(@, e)]
    /\ UNCHANGED <<engineVars, now, logs, workerVars, tabVars, windows>>

\* A session in force, shown in one dashboard window whose timer is set; the
\* background script authenticated, its listener just attached; one tab on
\* a url of the session's list and one on another url.
InitNav ==
    /\ build \in {"chrome", "firefox"}
    /\ cachedAllowedDomains = DefaultAllowedDomains
    /\ lastFetchTime = 0
    /\ url = tExample
    /\ session = NullSession
    /\ result = NoCall
    /\ now = StartTime
    /\ calls = NoCalls
    /\ decidedWith = NotYet
    /\ store = [s \in SessionIds |->
                   IF s = 1 THEN NoDoc
                   ELSE NewDoc(StartTime, "blocklist", <<eExample>>)]
    /\ logs = NoLogs
    /\ currentSession = NullSession
    /\ currentUserId = Uid
    /\ sessionUnsubscribe = NewListener
    /\ storedCredentials = Uid
    /\ handlers = NoHandlers
    /\ arrivals = << >>
    /\ tabs = <<LoadedTab(tExample), LoadedTab(tDocs)>>
    /\ tasks = NoTasks
    /\ preOpenedUrls = {}
    /\ windows = [w \in Windows |->
                     IF w = "w1" THEN [activeSession |-> 2, timer |-> 2]
                     ELSE IdleWindow]

NextNav ==
    \/ \E t \in TabIds : \E u \in NavUrls : Navigate(t, u)
    \/ \E t \in TabIds : Committed(t)
    \/ \E t \in TabIds : CheckCurrentUrl(t)
    \/ \E t \in TabIds : Completed(t)
    \/ \E t \in TabIds : OnActivated(t)
    \/ \E t \in FrameTabs : SubFrameNavigate(t, tExample)
    \/ SessionSnapshot
    \/ SessionListenerError
    \/ TabsQueriedCheck
    \/ TabsQueriedNotify
    \/ \E s \in SessionIds : AddUrlToSession(s, eExample)
    \/ \E s \in SessionIds : RemoveUrlFromSession(s, eExample)
    \/ \E w \in Windows : TimerFires(w)

SpecNav == InitNav /\ [][NextNav]_vars

(***************************************************************************)
(* Vocabulary of the properties                                            *)
(***************************************************************************)

\* shouldBlockUrl has answered for the current url and session.
Decided == result.op = "shouldBlockUrl"

\* urlMatchesAny has answered for the current url and session.urls.
Matched == result.op = "urlMatchesAny"

Active == session # NullSession /\ session.status = "active"

\* new URL(url) succeeds.
Parseable(u) == URLParse(u).ok

\* The url parses and its scheme is one this build exempts (by prefix).
HasInternalScheme(u) ==
    /\ Parseable(u)
    /\ \E i \in 1..Len(internalProtocols) :
          startsWith(URLParse(u).protocol, removeColon(internalProtocols[i]))

\* The url parses and its hostname is an entry of the cache, or a subdomain
\* of one.
OnAllowedDomain(u) ==
    /\ Parseable(u)
    /\ \E i \in 1..Len(cachedAllowedDomains) :
          LET h == toLowerCase(URLParse(u).hostname)
          IN  \/ h = cachedAllowedDomains[i]
              \/ endsWith(h, <<".">> \o cachedAllowedDomains[i])

\* Entry i of the session's list matches the url.
EntryMatches(i) == urlMatchesAny(url, <<session.urls[i]>>)

SomeEntryMatches == \E i \in 1..Len(session.urls) : EntryMatches(i)

OtherMode(m) == IF m = "allowlist" THEN "blocklist" ELSE "allowlist"

\* The verdict follows the mode: an allowlist blocks iff no entry matches, a
\* blocklist iff some entry does; the other mode gives the opposite verdict.
VerdictFollowsMode ==
    /\ result.value = (IF session.mode = "allowlist" THEN ~SomeEntryMatches
                       ELSE SomeEntryMatches)
    /\ result.value
         # shouldBlockUrl(url, [session EXCEPT !.mode = OtherMode(@)])

\* The ten schemes the specification lists as internal.
ListedSchemes ==
    {pChrome, pChromeExtension, pAbout, pEdge, pBrave, pOpera, pVivaldi,
     pMozExtension, pFile, pResource}

\* Those of them the Chrome module exempts, and those the Firefox module does.
ChromeSchemes == ListedSchemes \ {pResource}

FirefoxSchemes == ListedSchemes \ {pEdge, pBrave, pOpera, pVivaldi}

\* The call gets as far as urlMatchesAny.
ReachesMatching ==
    /\ Active /\ Parseable(url)
    /\ ~HasInternalScheme(url) /\ ~OnAllowedDomain(url)
    /\ Len(session.urls) > 0

\* parseUrlForMatching fails inside urlMatchesAny: on the target, or on an
\* entry that some() gets to (no earlier entry has matched).
MatchingParseFails ==
    /\ ReachesMatching
    /\ \/ ~parseUrlForMatching(url).ok
       \/ \E i \in 1..Len(session.urls) :
             /\ ~parseUrlForMatching(session.urls[i]).ok
             /\ \A j \in 1..(i - 1) : ~EntryMatches(j)

(***************************************************************************)
(* C1: shouldBlockUrl returns false for every url whenever the session is  *)
(* null or its status is not "active", whatever its mode and urls list.    *)
(***************************************************************************)
C1_InactiveSessionNeverBlocks ==
    (Decided /\ ~Active) => result.value = FALSE

\* A stopped allowlist session with no allowed site, asked about a site it
\* would block if active.
C1_Witness ==
    /\ Decided
    /\ session # NullSession
    /\ session.status = "stopped"
    /\ session.mode = "allowlist"
    /\ session.urls = << >>
    /\ url = tExample
    /\ result.value = FALSE

(***************************************************************************)
(* C2, as claimed: for an active session with a non-empty list and a       *)
(* target that is neither an internal-scheme URL nor on an always-allowed  *)
(* domain, allowlist mode blocks iff no entry matches, blocklist mode iff  *)
(* some entry matches, and the two modes give opposite verdicts.           *)
(***************************************************************************)
C2_AsClaimed ==
    (/\ Decided /\ Active /\ Len(session.urls) > 0
     /\ ~HasInternalScheme(url) /\ ~OnAllowedDomain(url))
    => VerdictFollowsMode

(***************************************************************************)
(* C2, amended: the same for a target that new URL can parse (a string it  *)
(* cannot parse is never blocked, in either mode).                         *)
(***************************************************************************)
C2_ModesOppositeOnParseableTargets ==
    (/\ Decided /\ Active /\ Len(session.urls) > 0
     /\ Parseable(url) /\ ~HasInternalScheme(url) /\ ~OnAllowedDomain(url))
    => VerdictFollowsMode

\* An allowlist of one path entry blocks another path of the same host.
C2_Witness ==
    /\ Decided /\ Active
    /\ session.mode = "allowlist"
    /\ session.urls = <<eVideos>>
    /\ url = tExampleOther
    /\ result.value = TRUE

(***************************************************************************)
(* C3: with an empty urls list an active allowlist session blocks every    *)
(* target that is parseable, not internal-scheme and not on an always-     *)
(* allowed domain, and an active blocklist session blocks no target.       *)
(***************************************************************************)
C3_EmptyList ==
    (Decided /\ Active /\ Len(session.urls) = 0)
    => /\ session.mode = "blocklist" => result.value = FALSE
       /\ (/\ session.mode = "allowlist" /\ Parseable(url)
           /\ ~HasInternalScheme(url) /\ ~OnAllowedDomain(url))
          => result.value = TRUE

C3_Witness ==
    /\ Decided /\ Active
    /\ session.mode = "allowlist"
    /\ session.urls = << >>
    /\ url = tYoutubeXyz
    /\ result.value = TRUE

(***************************************************************************)
(* C4, as claimed: in each of the two modules a URL whose scheme is any of *)
(* chrome:, chrome-extension:, about:, edge:, brave:, opera:, vivaldi:,    *)
(* moz-extension:, file: or resource: is never blocked under an active     *)
(* session.                                                                *)
(***************************************************************************)
C4_AsClaimed ==
    (Decided /\ Active /\ Parseable(url)
     /\ URLParse(url).protocol \in ListedSchemes)
    => result.value = FALSE

(***************************************************************************)
(* C4, amended: the Chrome module never blocks chrome:, chrome-extension:, *)
(* about:, edge:, brave:, opera:, vivaldi:, moz-extension: and file: URLs; *)
(* the Firefox module never blocks chrome:, chrome-extension:, about:,     *)
(* moz-extension:, file: and resource: URLs.                               *)
(***************************************************************************)
C4_InternalSchemesOfTheBuild ==
    (Decided /\ Active /\ Parseable(url)
     /\ URLParse(url).protocol
          \in (IF build = "chrome" THEN ChromeSchemes ELSE FirefoxSchemes))
    => result.value = FALSE

\* Chrome, an allowlist with no allowed site, and Edge's settings page.
C4_Witness ==
    /\ Decided /\ Active
    /\ build = "chrome"
    /\ session.mode = "allowlist"
    /\ session.urls = << >>
    /\ url = tEdge
    /\ result.value = FALSE

(***************************************************************************)
(* C5: a URL whose hostname equals an entry of the cached always-allowed   *)
(* list, or is a subdomain of one, is never blocked under an active        *)
(* session: not by a blocklist that lists that host, not by an allowlist   *)
(* that does not.                                                          *)
(***************************************************************************)
C5_AllowedDomainNeverBlocked ==
    (Decided /\ Active /\ OnAllowedDomain(url)) => result.value = FALSE

\* A blocklist that lists localhost, asked about the app on localhost.
C5_Witness ==
    /\ Decided /\ Active
    /\ cachedAllowedDomains = DefaultAllowedDomains
    /\ session.mode = "blocklist"
    /\ session.urls = <<eLocalhost>>
    /\ url = tLocalhost
    /\ result.value = FALSE

(***************************************************************************)
(* C6: shouldBlockUrl never throws (it always answers true or false), and  *)
(* answers false for every target string new URL cannot parse, under any   *)
(* session, mode and list.                                                 *)
(***************************************************************************)
C6_UnparseableTargetNeverBlocked ==
    Decided => /\ result.value \in BOOLEAN
               /\ ~Parseable(url) => result.value = FALSE

\* "not a url!!" under an allowlist with no allowed site.
C6_Witness ==
    /\ Decided /\ Active
    /\ session.mode = "allowlist"
    /\ session.urls = << >>
    /\ url = tMalformed
    /\ result.value = FALSE

(***************************************************************************)
(* C7, as claimed: whenever parsing the target or a list entry fails while *)
(* shouldBlockUrl evaluates an active session, the verdict is false, in    *)
(* allowlist mode as in blocklist mode.                                    *)
(***************************************************************************)
C7_AsClaimed ==
    (Decided /\ Active /\ (~Parseable(url) \/ MatchingParseFails))
    => result.value = FALSE

(***************************************************************************)
(* C7, amended: no parse error reaches the caller; a target new URL cannot *)
(* parse is not blocked; a parse failure inside urlMatchesAny only makes   *)
(* that comparison a non-match, so the verdict is then false in blocklist  *)
(* mode and true in allowlist mode unless another entry, one that parses,  *)
(* matches.                                                                *)
(***************************************************************************)
C7_ParseFailureIsNoMatch ==
    (Decided /\ Active)
    => /\ result.value \in BOOLEAN
       /\ ~Parseable(url) => result.value = FALSE
       /\ MatchingParseFails
          => result.value
               = (IF \E i \in 1..Len(session.urls) :
                        /\ parseUrlForMatching(session.urls[i]).ok
                        /\ EntryMatches(i)
                  THEN session.mode = "blocklist"
                  ELSE session.mode = "allowlist")

\* An allowlist whose only entry cannot be parsed blocks example.com.
C7_Witness ==
    /\ Decided /\ Active
    /\ session.mode = "allowlist"
    /\ session.urls = <<eMalformed>>
    /\ url = tExample
    /\ result.value = TRUE

(***************************************************************************)
(* Vocabulary of the matching properties                                   *)
(***************************************************************************)

\* The labels of a hostname after lowercasing it and dropping one leading
\* "www" label.
NormalLabels(h) ==
    LET ls == hostLabels(toLowerCase(h))
    IN  IF Len(ls) > 1 /\ ls[1] = <<"w", "w", "w">> THEN Tail(ls) ELSE ls

\* a is b's parent domain or an ancestor of it: its labels end b's labels.
IsAncestorDomain(a, b) ==
    Len(a) < Len(b) /\ SubSeq(b, Len(b) - Len(a) + 1, Len(b)) = a

\* The two hostnames are the same domain, or one is a subdomain of the other.
SameOrSubdomain(th, eh) ==
    LET tl == NormalLabels(th)
        el == NormalLabels(eh)
    IN  tl = el \/ IsAncestorDomain(el, tl) \/ IsAncestorDomain(tl, el)

TargetHost == parseUrlForMatching(url).hostname

EntryParses(i) == parseUrlForMatching(session.urls[i]).ok

EntryHost(i) == parseUrlForMatching(session.urls[i]).hostname

\* Entry i parses and its hostname matches the target's.
HostOfEntryMatches(i) ==
    EntryParses(i) /\ SameOrSubdomain(TargetHost, EntryHost(i))

\* A bare hostname, or a hostname followed only by "/": no scheme, port,
\* path, "?" or "#".
IsBareHost(e) ==
    LET d == IndexIn(e, {":", "/", "?", "#"}, 1)
    IN  /\ Len(e) > 0
        /\ d >= Len(e)
        /\ d = Len(e) => (e[d] = "/" /\ Len(e) > 1)

\* An entry with a non-empty path and neither "?" nor "#".
IsPathEntry(e) ==
    /\ parseUrlForMatching(e).ok
    /\ ~includes(e, <<"?">>) /\ ~includes(e, <<"#">>)
    /\ Len(stripTrailingSlash(URLParse(
           IF includes(e, SchemeSep) THEN e ELSE HttpsPrefix \o e).pathname)) > 0

\* pathname + search of new URL(u), one trailing slash removed.
PathAndQuery(u) ==
    LET parsed == URLParse(IF includes(u, SchemeSep) THEN u
                           ELSE HttpsPrefix \o u)
    IN  stripTrailingSlash(parsed.pathname \o parsed.search)

(***************************************************************************)
(* C8: in urlMatchesAny the hostname of a target matches that of an entry  *)
(* iff, lowercased and with one leading "www." stripped, they are equal or *)
(* one is a subdomain of the other (in either direction): sub.example.com  *)
(* matches https://example.com, www.example.com matches https://example.com*)
(* and back, while notexample.com and a sibling subdomain do not match.    *)
(***************************************************************************)
C8_HostnameMatchIsBidirectional ==
    (Matched /\ parseUrlForMatching(url).ok)
    => /\ result.value
          => \E i \in 1..Len(session.urls) : HostOfEntryMatches(i)
       /\ (\E i \in 1..Len(session.urls) :
              HostOfEntryMatches(i) /\ ~hasSpecificPath(session.urls[i]))
          => result.value
       /\ (url = tExample /\ session.urls = <<eSubExample>>) => result.value
       /\ (url = tExample /\ session.urls = <<eWwwExample>>) => result.value
       /\ (url = tWwwExample /\ session.urls = <<eExample>>) => result.value
       /\ (url = tNotExample /\ session.urls = <<eExample>>) => ~result.value
       /\ (url = tOtherExample /\ session.urls = <<eSubExample>>)
          => ~result.value

\* The entry is a subdomain of the target, and matches it.
C8_Witness ==
    /\ Matched
    /\ url = tExample
    /\ session.urls = <<eSubExample>>
    /\ result.value = TRUE

(***************************************************************************)
(* C9: an entry that is a bare hostname, or a hostname followed only by    *)
(* "/", matches every target whose hostname matches it, whatever the       *)
(* target's path and query; with urls ["example.com"] a blocklist session  *)
(* blocks https://example.com/ and https://example.com/deep/path?x=1.      *)
(***************************************************************************)
C9_HostnameEntryCoversAllPaths ==
    /\ (Matched /\ parseUrlForMatching(url).ok)
       => ((\E i \in 1..Len(session.urls) :
               IsBareHost(session.urls[i]) /\ HostOfEntryMatches(i))
           => result.value)
    /\ (/\ Decided /\ Active /\ session.mode = "blocklist"
        /\ session.urls = <<eExample>>
        /\ url \in {tExampleRoot, tExampleDeep})
       => result.value

C9_Witness ==
    /\ Decided /\ Active
    /\ session.mode = "blocklist"
    /\ session.urls = <<eExample>>
    /\ url = tExampleDeep
    /\ result.value = TRUE

(***************************************************************************)
(* C10: for an entry with a non-empty path and no query string, and a      *)
(* target whose hostname matches it, urlMatchesAny matches iff the         *)
(* target's path+query, one trailing slash stripped, equals or starts with *)
(* the entry's path, one trailing slash stripped.                          *)
(***************************************************************************)
C10_PathEntryIsPrefixMatched ==
    (/\ Matched /\ parseUrlForMatching(url).ok
     /\ Len(session.urls) = 1
     /\ IsPathEntry(session.urls[1]) /\ HostOfEntryMatches(1))
    => result.value
         = startsWith(PathAndQuery(url), PathAndQuery(session.urls[1]))

(***************************************************************************)
(* Vocabulary of the query and scheme-insertion properties                 *)
(***************************************************************************)

\* An entry that parses and carries a non-empty query string.
IsQueryEntry(e) ==
    /\ parseUrlForMatching(e).ok
    /\ ~includes(e, <<"#">>)
    /\ Len(URLParse(IF includes(e, SchemeSep) THEN e
                     ELSE HttpsPrefix \o e).search) > 0

\* The string holds no "://".
IsSchemeless(s) == ~includes(s, SchemeSep)

\* "https://" + s for a scheme-less s, s itself otherwise.
WithHttps(s) == IF IsSchemeless(s) THEN HttpsPrefix \o s ELSE s

\* The session's list with "https://" put before its scheme-less entries.
UrlsWithHttps == [i \in 1..Len(session.urls) |-> WithHttps(session.urls[i])]

\* The session's list without the entries parseUrlForMatching rejects.
RECURSIVE ParseableEntries(_)
ParseableEntries(l) ==
    IF Len(l) = 0 THEN << >>
    ELSE (IF parseUrlForMatching(Head(l)).ok THEN <<Head(l)>> ELSE << >>)
         \o ParseableEntries(Tail(l))

(***************************************************************************)
(* C11: for an entry that carries a query string, and a target whose       *)
(* hostname matches it, urlMatchesAny matches iff the target's path+query  *)
(* (path, "?", query, one trailing slash stripped) equals or starts with   *)
(* the entry's path+query built the same way; youtube.com/watch?v=abc      *)
(* matches https://youtube.com/watch?v=abc and                             *)
(* https://youtube.com/watch?v=abc&t=10.                                   *)
(***************************************************************************)
C11_QueryEntryIsPrefixMatched ==
    (/\ Matched /\ parseUrlForMatching(url).ok
     /\ Len(session.urls) = 1
     /\ IsQueryEntry(session.urls[1]) /\ HostOfEntryMatches(1))
    => result.value
         = startsWith(PathAndQuery(url), PathAndQuery(session.urls[1]))

(***************************************************************************)
(* C12, as claimed: for a string s that holds no "://", shouldBlockUrl     *)
(* gives the same verdict for the target s as for the target               *)
(* "https://" + s.                                                         *)
(***************************************************************************)
C12_AsClaimed ==
    (Decided /\ IsSchemeless(url))
    => result.value = shouldBlockUrl(HttpsPrefix \o url, session)

(***************************************************************************)
(* C12, amended: for a string s that holds no "://", parseUrlForMatching   *)
(* and urlMatchesAny give the same result for s as for "https://" + s,     *)
(* as the target and as a list entry, and shouldBlockUrl gives the same    *)
(* verdict for the list entry s as for the list entry "https://" + s; as   *)
(* the target of shouldBlockUrl, s is not blocked when new URL(s) throws.  *)
(***************************************************************************)
C12_SchemeInsertionInMatching ==
    /\ IsSchemeless(url)
       => parseUrlForMatching(url) = parseUrlForMatching(HttpsPrefix \o url)
    /\ \A i \in 1..Len(session.urls) :
          parseUrlForMatching(session.urls[i])
            = parseUrlForMatching(UrlsWithHttps[i])
    /\ Matched
       => /\ IsSchemeless(url)
             => result.value = urlMatchesAny(HttpsPrefix \o url, session.urls)
          /\ result.value = urlMatchesAny(url, UrlsWithHttps)
    /\ Decided
       => /\ result.value
               = shouldBlockUrl(url, [session EXCEPT !.urls = UrlsWithHttps])
          /\ (IsSchemeless(url) /\ ~Parseable(url)) => result.value = FALSE

\* The scheme-less target example.com/videos matches the entry
\* https://example.com/videos.
C12_Witness ==
    /\ Matched
    /\ url = tSchemeless
    /\ session.urls = <<eVideosFull>>
    /\ result.value = TRUE

(***************************************************************************)
(* C13: an unparseable list entry is skipped: it contributes no match and  *)
(* does not stop the remaining entries from being evaluated, so            *)
(* urlMatchesAny(T, L) equals urlMatchesAny(T, L with its unparseable      *)
(* entries removed).                                                       *)
(***************************************************************************)
C13_UnparseableEntryIsSkipped ==
    Matched
    => /\ result.value = urlMatchesAny(url, ParseableEntries(session.urls))
       /\ (\A i \in 1..Len(session.urls) :
              ~parseUrlForMatching(session.urls[i]).ok)
          => result.value = FALSE

\* The entry after an unparseable one is still evaluated, and matches.
C13_Witness ==
    /\ Matched
    /\ url = tExample
    /\ session.urls = <<eMalformed, eExample>>
    /\ result.value = TRUE

(***************************************************************************)
(* Vocabulary of the cache-refresh properties                              *)
(***************************************************************************)

\* The url is on one of the default application domains.
OnDefaultDomain(u) ==
    isAllowedHost(extractHostname(u), DefaultAllowedDomains)

\* The lists the cache may hold: the hardcoded default, or the complete
\* domains array of a response.
ValidLists == {DefaultAllowedDomains} \cup ServerLists

\* In this step caller c starts a call.
Starts(c) ==
    /\ calls[c].pc \in {"idle", "done"}
    /\ calls'[c] # calls[c]

\* In this step an endpoint's answer reaches caller c's call.
Answered(c) ==
    /\ calls[c].pc \in {"fetch", "json"}
    /\ calls'[c] # calls[c]

\* In this step caller c's call takes a domains array from a response.
Succeeds(c) == Answered(c) /\ calls'[c].last = "domains"

\* In this step an endpoint fails caller c's call.
Fails(c) == Answered(c) /\ calls'[c].last \in FetchFailures \cup JsonFailures

\* In this step caller c's call returns, every endpoint having failed.
FailsCompletely(c) == Fails(c) /\ calls'[c].pc = "done"

\* In this step shouldBlockUrl is called and answers.
Decides == result' # result \/ decidedWith' # decidedWith

(***************************************************************************)
(* C14: a call to shouldBlockUrl changes no state: it leaves the cache     *)
(* (cachedAllowedDomains, lastFetchTime), the session and the refreshes in *)
(* flight as they are, and a call made with the inputs and the cache of    *)
(* the call before it returns the same verdict, also between the steps of  *)
(* overlapping refreshes.                                                  *)
(***************************************************************************)
C14_ShouldBlockUrlChangesNoState ==
    [][/\ Decides
          => UNCHANGED <<cachedAllowedDomains, lastFetchTime, session, url,
                         calls, now>>
       /\ (Decided /\ decidedWith = [ok |-> TRUE,
                                     value |-> cachedAllowedDomains])
          => result' = result]_vars

\* A verdict given while one refresh awaits an endpoint and the other a body.
C14_Witness ==
    /\ Decided
    /\ decidedWith = [ok |-> TRUE, value |-> cachedAllowedDomains]
    /\ calls["first"].pc = "json"
    /\ calls["second"].pc = "fetch"
    /\ url = tExample
    /\ result.value = TRUE

(***************************************************************************)
(* C15: in every reachable state of the cache, a URL on one of the default *)
(* application domains (localhost, 127.0.0.1, vercel.app, anshul.space) is *)
(* never blocked under an active session.                                  *)
(***************************************************************************)
C15_DefaultDomainsStayReachable ==
    (/\ Decided /\ Active /\ OnDefaultDomain(url)
     /\ decidedWith = [ok |-> TRUE, value |-> cachedAllowedDomains])
    => result.value = FALSE

(***************************************************************************)
(* C16: when every candidate endpoint of a refresh fails (fetch rejects,   *)
(* the answer is not 2xx, the JSON is malformed or the body has no domains *)
(* array), fetchAllowedDomains resolves with the cached list and leaves    *)
(* cachedAllowedDomains and lastFetchTime as they were: the hardcoded      *)
(* default and 0 if no refresh ever succeeded.                             *)
(***************************************************************************)
C16_FailedRefreshKeepsTheCache ==
    /\ [][\A c \in Callers :
            /\ Fails(c) => UNCHANGED <<cachedAllowedDomains, lastFetchTime>>
            /\ FailsCompletely(c)
               => /\ calls[c].i = Len(urls)
                  /\ calls'[c].returned
                       = [ok |-> TRUE, value |-> cachedAllowedDomains]]_vars
    /\ [](lastFetchTime = 0
          => cachedAllowedDomains = DefaultAllowedDomains)

\* Every endpoint has failed the first call, the last one with a body that
\* carries no domains array: the default list is returned and kept.
C16_Witness ==
    /\ calls["first"].pc = "done"
    /\ calls["first"].i = Len(urls)
    /\ calls["first"].last = "noDomains"
    /\ ~calls["first"].wrote
    /\ calls["first"].returned = [ok |-> TRUE, value |-> DefaultAllowedDomains]
    /\ cachedAllowedDomains = DefaultAllowedDomains
    /\ lastFetchTime = 0

(***************************************************************************)
(* C17: a refresh round requests the candidate endpoints in their listed   *)
(* order: it starts at the first, moves on by one only after the endpoint  *)
(* it requested has failed, and stops at the first endpoint that answers   *)
(* with a domains array; that list becomes the cache and the round         *)
(* requests no further endpoint.                                           *)
(***************************************************************************)
C17_EndpointsInOrderFirstSuccessWins ==
    [][\A c \in Callers :
         /\ Starts(c) => calls'[c].i = (IF calls'[c].pc = "fetch" THEN 1 ELSE 0)
         /\ (~Starts(c) /\ calls'[c].i # calls[c].i)
            => /\ Fails(c)
               /\ calls'[c].i = calls[c].i + 1
               /\ calls'[c].i <= Len(urls)
               /\ calls'[c].pc = "fetch"
         /\ Succeeds(c)
            => /\ calls'[c].pc = "done"
               /\ calls'[c].i = calls[c].i
               /\ cachedAllowedDomains' = calls'[c].returned.value
         /\ (calls[c].pc = "done" /\ calls'[c] # calls[c]) => Starts(c)]_vars

\* The first endpoint failed and the second answered with a domains array:
\* the round is over at the second endpoint and its list is the cache.
C17_Witness ==
    /\ calls["first"].pc = "done"
    /\ calls["first"].wrote
    /\ calls["first"].i = 2
    /\ calls["first"].last = "domains"
    /\ calls["first"].returned = [ok |-> TRUE, value |-> ServerAllowedDomains]
    /\ cachedAllowedDomains = ServerAllowedDomains
    /\ calls["second"].pc = "idle"

(***************************************************************************)
(* C18 as claimed: once a refresh has succeeded for a call started at time *)
(* t, every fetchAllowedDomains call started before t + 5 minutes issues   *)
(* no request, returns the cached list and leaves the cache unchanged.     *)
(***************************************************************************)
C18_AsClaimed ==
    [][\A c \in Callers :
         (/\ Starts(c)
          /\ \E d \in Callers :
                /\ calls[d].pc = "done"
                /\ calls[d].wrote
                /\ now < calls[d].now + CACHE_DURATION)
         => /\ calls'[c].pc = "done"
            /\ calls'[c].i = 0
            /\ calls'[c].returned = [ok |-> TRUE,
                                     value |-> cachedAllowedDomains]
            /\ UNCHANGED <<cachedAllowedDomains, lastFetchTime>>]_vars

(***************************************************************************)
(* C18: the cool-down runs from lastFetchTime, the start time of the call  *)
(* whose successful refresh wrote the cache last, and applies only while   *)
(* the cached list is non-empty: a call started less than 5 minutes after  *)
(* it issues no request, returns the cached list and leaves the cache      *)
(* unchanged; a call started 5 minutes or more after it, or while the      *)
(* cached list is empty, requests the first endpoint.                      *)
(***************************************************************************)
C18_CoolDownFromLastWrite ==
    [][/\ \A c \in Callers :
            Starts(c)
            => IF /\ now - lastFetchTime < CACHE_DURATION
                  /\ Len(cachedAllowedDomains) > 0
               THEN /\ calls'[c].pc = "done"
                    /\ calls'[c].i = 0
                    /\ calls'[c].returned = [ok |-> TRUE,
                                             value |-> cachedAllowedDomains]
                    /\ UNCHANGED <<cachedAllowedDomains, lastFetchTime>>
               ELSE /\ calls'[c].pc = "fetch"
                    /\ calls'[c].i = 1
       /\ lastFetchTime' # lastFetchTime
          => \E c \in Callers : Succeeds(c) /\ lastFetchTime' = calls[c].now]_vars

\* A call started half a cool-down after the refresh that wrote the cache
\* returns the cached list without a request.
C18_Witness ==
    /\ calls["first"].pc = "done"
    /\ calls["first"].wrote
    /\ lastFetchTime = StartTime
    /\ calls["second"].pc = "done"
    /\ calls["second"].now = StartTime + TickStep
    /\ calls["second"].i = 0
    /\ calls["second"].returned = [ok |-> TRUE, value |-> ServerAllowedDomains]
    /\ cachedAllowedDomains = ServerAllowedDomains

(***************************************************************************)
(* C19: when fetchAllowedDomains calls overlap, the cache always holds the *)
(* hardcoded default or the complete domains array of one successful       *)
(* response, the one written last, and cachedAllowedDomains and            *)
(* lastFetchTime change only together, in the step of a successful         *)
(* response: the one to that response's list, the other to the start time  *)
(* of its call.                                                            *)
(***************************************************************************)
C19_LastWriteWinsWholeLists ==
    /\ [](cachedAllowedDomains \in ValidLists)
    /\ [][(\/ cachedAllowedDomains' # cachedAllowedDomains
           \/ lastFetchTime' # lastFetchTime
           \/ \E c \in Callers : Succeeds(c))
          => \E c \in Callers :
                /\ Succeeds(c)
                /\ calls'[c].returned.value \in ServerLists
                /\ cachedAllowedDomains' = calls'[c].returned.value
                /\ lastFetchTime' = calls[c].now]_vars

\* Two overlapping calls have both succeeded with different lists; the cache
\* holds the list of the one that finished last, stamped with the start time
\* of that call, which started first.
C19_Witness ==
    /\ calls["first"].pc = "done" /\ calls["first"].wrote
    /\ calls["second"].pc = "done" /\ calls["second"].wrote
    /\ calls["first"].now < calls["second"].now
    /\ calls["second"].returned = [ok |-> TRUE, value |-> ServerAllowedDomains]
    /\ calls["first"].returned = [ok |-> TRUE, value |-> << >>]
    /\ cachedAllowedDomains = << >>
    /\ lastFetchTime = calls["first"].now

(***************************************************************************)
(* C20: shouldBlockUrl never starts or waits for a config fetch: in every  *)
(* state of any interleaving with refreshes, whatever the calls in flight  *)
(* are doing, it has a verdict, the one the list currently held in the     *)
(* cache gives; its step leaves the calls in flight as they are; and the   *)
(* list held is the hardcoded default until some refresh has succeeded.    *)
(***************************************************************************)
C20_DecidesAtOnceOnCurrentCache ==
    /\ [](shouldBlockUrl(url, session)
            = (/\ ~OnAllowedDomain(url)
               /\ IF session.mode = "blocklist"
                  THEN SomeEntryMatches
                  ELSE ~SomeEntryMatches))
    /\ [][Decides
          => /\ UNCHANGED calls
             /\ decidedWith' = [ok |-> TRUE, value |-> cachedAllowedDomains]
             /\ result'.value
                  = (/\ ~OnAllowedDomain(url)
                     /\ IF session.mode = "blocklist"
                        THEN SomeEntryMatches
                        ELSE ~SomeEntryMatches)]_vars
    /\ []((\A c \in Callers : calls[c].last # "domains" /\ lastFetchTime = 0)
          => cachedAllowedDomains = DefaultAllowedDomains)

\* A verdict given while the first refresh is still waiting for its second
\* endpoint: the default list is in force and lets the application url pass.
C20_Witness ==
    /\ Decided
    /\ calls["first"].pc = "fetch"
    /\ calls["first"].i = 2
    /\ lastFetchTime = 0
    /\ decidedWith = [ok |-> TRUE, value |-> DefaultAllowedDomains]
    /\ url = tLocalhost
    /\ result.value = FALSE

(***************************************************************************)
(* C21: the content script's urlMatchesAny mirrors the one of              *)
(* url-blocker.ts: for every target and every list of entries the two      *)
(* return the same result.                                                 *)
(***************************************************************************)
C21_OverlayMirrorsBackground ==
    Matched => result.value = overlayUrlMatchesAny(url, session.urls)

(***************************************************************************)
(* C26: for every session, once the logTabSwitchAttempt calls made have    *)
(* all returned, whatever their interleaving, the session's                *)
(* tabSwitchAttempts counter equals the number of attempt records stored   *)
(* under that session.                                                     *)
(***************************************************************************)
C26_CounterEqualsAttemptRecords ==
    (\A k \in Loggers : logs[k].pc \in {"idle", "done"})
    => \A s \in SessionIds : store[s].tabSwitchAttempts = store[s].attempts

\* The clear handler moves from one of the places in from to the place to.
ClearStep(from, to) ==
    /\ handlers["clear"].pc \in from
    /\ handlers'["clear"].pc = to

\* An active session is cached for a user.
CachedActive ==
    /\ currentSession # NullSession
    /\ currentUserId # NoUser
    /\ currentSession.status = "active"

\* The store with the session the clear handler took marked as stopped.
StoppedByClear ==
    [store EXCEPT ![handlers["clear"].sessionId] =
        [@ EXCEPT !.status = "stopped", !.endedAt = now]]

\* C23: on CLEAR_AUTH_CREDENTIALS the handler first stops the cached active
\* session in the store, and only if one is cached and active; then it
\* removes the credentials and drops the listener.  Whether or not the stop
\* succeeds the handler goes on to the removal; the credentials leave the
\* storage at no other step; and when the handler completes, currentSession
\* and currentUserId are null, no listener is attached and no credentials
\* remain.
C23_ClearStopsThenRemovesThenDrops ==
    [][/\ ClearStep({"idle", "done"}, "stop") =>
             /\ CachedActive
             /\ handlers'["clear"].sessionId = currentSession.id
             /\ UNCHANGED <<store, storedCredentials, sessionUnsubscribe>>
       /\ ClearStep({"idle", "done"}, "remove") =>
             /\ ~CachedActive
             /\ UNCHANGED <<store, storedCredentials, sessionUnsubscribe>>
       /\ handlers["clear"].pc = "stop" =>
             handlers'["clear"].pc \in {"stop", "remove"}
       /\ ClearStep({"stop"}, "remove") =>
             /\ store' \in {store, StoppedByClear}
             /\ UNCHANGED <<storedCredentials, sessionUnsubscribe>>
       /\ ClearStep({"remove"}, "done") =>
             /\ storedCredentials' = NoUser
             /\ sessionUnsubscribe' = NoListener
             /\ currentSession' = NullSession
             /\ currentUserId' = NoUser
             /\ store' = store
       /\ (storedCredentials # NoUser /\ storedCredentials' = NoUser) =>
             ClearStep({"remove"}, "done")
      ]_vars

\* The clear handler has completed after stopping the session in force.
C23_Witness ==
    /\ handlers["clear"].pc = "done"
    /\ store[2].status = "stopped"
    /\ storedCredentials = NoUser
    /\ currentUserId = NoUser

\* No credential handler is running.
HandlersComplete ==
    \A h \in DOMAIN handlers : handlers[h].pc \in {"idle", "done"}

\* C27: credential messages take effect in arrival order: when a STORE
\* message has arrived after a CLEAR message and both handlers have
\* completed, the background is authenticated as the stored user.
C27_StoreAfterClearAuthenticates ==
    (/\ Len(arrivals) >= 2
     /\ arrivals[Len(arrivals)] = "STORE"
     /\ arrivals[Len(arrivals) - 1] = "CLEAR"
     /\ HandlersComplete) =>
        /\ currentUserId = Uid
        /\ storedCredentials = Uid
        /\ sessionUnsubscribe.on

\* The session has ended.
Final(s) == store[s].status \in {"stopped", "completed"}

\* C29: a session's status only moves from active to stopped or from active
\* to completed and is then final: no operation changes the status or the
\* endedAt of a stopped or completed session.
C29_EndedSessionsStayAsTheyAre ==
    [][\A s \in SessionIds :
          /\ store[s].status = "active" =>
                store'[s].status \in {"active", "stopped", "completed"}
          /\ Final(s) =>
                /\ store'[s].status = store[s].status
                /\ store'[s].endedAt = store[s].endedAt
      ]_vars

\* C30: at any time at most one session of the user has status active.
C30_AtMostOneActiveSession ==
    \A s \in ActiveIds : \A r \in ActiveIds : s = r

\* The listener delivers an empty snapshot.
EmptySnapshotStep ==
    /\ sessionUnsubscribe.on
    /\ sessionUnsubscribe'.on
    /\ sessionUnsubscribe.last # NullSession
    /\ sessionUnsubscribe'.last = NullSession

\* The listener's error callback runs.
ListenerErrorStep ==
    /\ sessionUnsubscribe.live
    /\ sessionUnsubscribe'.on
    /\ ~sessionUnsubscribe'.live

\* Tab t gains neither an overlay nor a logged attempt.
NothingShownOrLogged(t) ==
    /\ tabs'[t].overlay => tabs[t].overlay
    /\ tabs'[t].logged <= tabs[t].logged
    /\ tabs'[t].sweepLogged = tabs[t].sweepLogged

C24_OneAttemptPerNavigation ==
    [][\A t \in DOMAIN tabs :
          /\ (/\ build = "chrome"
              /\ tabs[t].stage = "before"
              /\ tabs'[t].stage = "committed"
              /\ shouldBlockUrl(tabs[t].url, currentSession)
              /\ currentUserId # NoUser) => tabs'[t].logged = 1
          /\ tabs'[t].frame # tabs[t].frame =>
                /\ tabs'[t].logged = tabs[t].logged \/ tabs'[t].logged = 0
                /\ tabs'[t].sweepLogged = tabs[t].sweepLogged
                /\ tabs'[t].overlay => tabs[t].overlay
      ]_vars

\* C25: in the Firefox background checkAllOpenTabs shows the overlay on
\* every tab open on a blocked url and logs no attempt; every new blocked
\* main-frame navigation is logged; and preOpenedUrls is emptied when the
\* session ends.
C25_PreOpenedNotLoggedNewNavigationsLogged ==
    [][build = "firefox" =>
          /\ tasks'.check < tasks.check =>
                \A t \in DOMAIN tabs :
                    /\ shouldBlockUrl(tabs[t].url, currentSession) =>
                          tabs'[t].overlay
                    /\ tabs'[t].logged = tabs[t].logged
                    /\ ~tabs'[t].sweepLogged
          /\ \A t \in DOMAIN tabs :
                (/\ tabs[t].stage # "before"
                 /\ tabs'[t].stage = "before"
                 /\ shouldBlockUrl(tabs'[t].url, currentSession)
                 /\ currentUserId # NoUser) => tabs'[t].logged >= 1
          /\ EmptySnapshotStep => preOpenedUrls' = {}
      ]_vars

\* The listener has delivered what its query holds, no sweep is pending and
\* every tab has loaded.
AtRestWithSession ==
    /\ sessionUnsubscribe.on
    /\ sessionUnsubscribe.live
    /\ sessionUnsubscribe.last \in QueryResults
    /\ tasks = NoTasks
    /\ \A t \in DOMAIN tabs : tabs[t].stage = "complete"

\* C28: once a change of the session's url list has been delivered and the
\* sweeps it started have run, the overlay of every open tab agrees with
\* the verdict on its url, without a navigation in the tab.
C28_OverlaysFollowTheUrlList ==
    AtRestWithSession =>
        \A t \in DOMAIN tabs :
            tabs[t].overlay = shouldBlockUrl(tabs[t].url, currentSession)

====
